---------------------------- MODULE Spec2Model ----------------------------
(***************************************************************************)
(* Conditional visibility and validation engine of the questionnaire       *)
(* renderer: lib/forms/logic.ts (evaluateCondition, evaluateQuestionLogic, *)
(* evaluateVisibility), lib/forms/validation (buildZodSchema,              *)
(* buildQuestionSchema), lib/forms/questionUtils.ts and the FormRenderer   *)
(* component that drives them.                                             *)
(*                                                                         *)
(* JavaScript strings are sequences of one-character strings, so that      *)
(* String(), Number(), toLowerCase() and includes() are computed and not   *)
(* assumed.  JavaScript values are records [t, s, n, b, a] tagged by t.    *)
(***************************************************************************)
EXTENDS Integers, Sequences, FiniteSets, TLC

(***************************************************************************)
(* Bounds of the model.                                                    *)
(***************************************************************************)
\* longest rule list drawn for one subject in SpecLogic
MaxRules == 2
\* longest rule list drawn for a section or a question in SpecVisibility
MaxFormRules == 2
\* most calls of evaluateVisibility one behaviour of SpecRecompute makes
MaxCalls == 3
\* evaluations of the visibility map that are compared with each other
MaxEvaluations == 2
\* files of a drawn submission (the submissions built to pass the total size are longer)
MaxFiles == 2
\* stored uploads handed to sendSubmissionEmail
MaxUploads == 3
\* the last day the clock reaches, and the submissions that arrive up to then
\* renders recorded after one change of an answer
MaxRenders == 6
MaxDay == 9
MaxSubmissions == 3

(***************************************************************************)
(* JavaScript values.                                                      *)
(***************************************************************************)
VUndef == [t |-> "undefined", s |-> <<>>, n |-> 0, b |-> FALSE, a |-> <<>>]
VNull == [t |-> "null", s |-> <<>>, n |-> 0, b |-> FALSE, a |-> <<>>]
VNaN == [t |-> "nan", s |-> <<>>, n |-> 0, b |-> FALSE, a |-> <<>>]
\* Infinity (sign 1) and -Infinity (sign -1)
VInf(sign) == [t |-> "infinity", s |-> <<>>, n |-> sign, b |-> FALSE, a |-> <<>>]
VStr(str) == [t |-> "string", s |-> str, n |-> 0, b |-> FALSE, a |-> <<>>]
VNum(num) == [t |-> "number", s |-> <<>>, n |-> num, b |-> FALSE, a |-> <<>>]
VBool(bool) == [t |-> "boolean", s |-> <<>>, n |-> 0, b |-> bool, a |-> <<>>]
VArr(arr) == [t |-> "array", s |-> <<>>, n |-> 0, b |-> FALSE, a |-> arr]

\* string literals used by the code and by the inputs drawn below
S_empty == <<>>
S_yes == <<"y", "e", "s">>
S_no == <<"n", "o">>
S_skip == <<"s", "k", "i", "p">>
S_ye == <<"y", "e">>
S_5 == <<"5">>
S_7 == <<"7">>
S_555 == <<"5", "5", "5">>
S_minus5 == <<"-", "5">>
S_21 == <<"2", "1">>
S_17 == <<"1", "7">>
S_18 == <<"1", "8">>
S_true == <<"t", "r", "u", "e">>
S_false == <<"f", "a", "l", "s", "e">>
S_undefined == <<"u", "n", "d", "e", "f", "i", "n", "e", "d">>
S_null == <<"n", "u", "l", "l">>
S_Infinity == <<"I", "n", "f", "i", "n", "i", "t", "y">>
S_NaN == <<"N", "a", "N">>
S_consent == <<"c", "o", "n", "s", "e", "n", "t">>
S_agree == <<"a", "g", "r", "e", "e">>
S_accept == <<"a", "c", "c", "e", "p", "t">>
S_terms == <<"t", "e", "r", "m", "s">>
S_signature == <<"s", "i", "g", "n", "a", "t", "u", "r", "e">>
S_sign == <<"s", "i", "g", "n">>

\* labels drawn for questions
S_label == <<"N", "a", "m", "e">>
L_agreeTerms == <<"I", " ", "a", "g", "r", "e", "e", " ", "t", "o", " ", "t", "h", "e", " ", "t", "e", "r", "m", "s">>
L_CONSENT == <<"C", "O", "N", "S", "E", "N", "T">>
L_Accept == <<"A", "c", "c", "e", "p", "t">>
L_Signature == <<"S", "i", "g", "n", "a", "t", "u", "r", "e">>
L_Design == <<"D", "e", "s", "i", "g", "n">>
L_SIGN == <<"S", "I", "G", "N">>
S_a == <<"a">>
S_b == <<"b">>
S_mail == <<"a", "@", "b", ".", "c", "o">>

Digits == <<"0", "1", "2", "3", "4", "5", "6", "7", "8", "9">>
DigitChars == {Digits[i] : i \in 1..10}
DigitValue(c) == (CHOOSE i \in 1..10 : Digits[i] = c) - 1
WhiteSpace == {" "}

UpperCase == <<"A", "B", "C", "D", "E", "F", "G", "H", "I", "J", "K", "L", "M",
               "N", "O", "P", "Q", "R", "S", "T", "U", "V", "W", "X", "Y", "Z">>
LowerCase == <<"a", "b", "c", "d", "e", "f", "g", "h", "i", "j", "k", "l", "m",
               "n", "o", "p", "q", "r", "s", "t", "u", "v", "w", "x", "y", "z">>

\* String.prototype.toLowerCase
ToLowerChar(c) ==
    IF \E i \in 1..26 : UpperCase[i] = c
    THEN LowerCase[CHOOSE i \in 1..26 : UpperCase[i] = c]
    ELSE c
ToLowerCase(str) == [i \in 1..Len(str) |-> ToLowerChar(str[i])]

\* String.prototype.includes: sub occurs in str as a contiguous substring
Includes(str, sub) ==
    \E i \in 0..(Len(str) - Len(sub)) : SubSeq(str, i + 1, i + Len(sub)) = sub

\* Array.prototype.includes on an array of strings: strict equality of an element
ArrayIncludes(arr, str) == \E i \in 1..Len(arr) : arr[i] = str

\* decimal digits of a natural number
RECURSIVE NatToStr(_)
NatToStr(num) ==
    IF num < 10 THEN <<Digits[num + 1]>>
    ELSE NatToStr(num \div 10) \o <<Digits[(num % 10) + 1]>>

\* Array.prototype.join(',') as String(array) performs it
RECURSIVE Join(_)
Join(arr) ==
    IF Len(arr) = 0 THEN <<>>
    ELSE IF Len(arr) = 1 THEN arr[1]
    ELSE arr[1] \o <<",">> \o Join(Tail(arr))

\* String(value)
JsString(v) ==
    CASE v.t = "string" -> v.s
      [] v.t = "number" -> IF v.n < 0 THEN <<"-">> \o NatToStr(0 - v.n) ELSE NatToStr(v.n)
      [] v.t = "infinity" -> IF v.n < 0 THEN <<"-">> \o S_Infinity ELSE S_Infinity
      [] v.t = "boolean" -> IF v.b THEN S_true ELSE S_false
      [] v.t = "array" -> Join(v.a)
      [] v.t = "undefined" -> S_undefined
      [] v.t = "null" -> S_null
      [] OTHER -> S_NaN

\* leading and trailing white space removed, as StringToNumber does
RECURSIVE TrimLeft(_)
TrimLeft(str) ==
    IF Len(str) > 0 /\ str[1] \in WhiteSpace THEN TrimLeft(Tail(str)) ELSE str
RECURSIVE TrimRight(_)
TrimRight(str) ==
    IF Len(str) > 0 /\ str[Len(str)] \in WhiteSpace
    THEN TrimRight(SubSeq(str, 1, Len(str) - 1))
    ELSE str
Trim(str) == TrimRight(TrimLeft(str))

RECURSIVE DigitsToNat(_)
DigitsToNat(str) ==
    IF Len(str) = 0 THEN 0
    ELSE 10 * DigitsToNat(SubSeq(str, 1, Len(str) - 1)) + DigitValue(str[Len(str)])

AllDigits(str) == Len(str) > 0 /\ \A i \in 1..Len(str) : str[i] \in DigitChars

\* Number(string): the empty (or blank) string is 0, a signed run of decimal
\* digits is its value, anything else is NaN.  Integers only: the model draws
\* no fractional, exponent or radix-prefixed literal.
StrNumericLiteral(t) ==
    IF Len(t) = 0 THEN VNum(0)
    ELSE IF t \in {S_Infinity, <<"+">> \o S_Infinity} THEN VInf(1)
    ELSE IF t = <<"-">> \o S_Infinity THEN VInf(0 - 1)
    ELSE IF AllDigits(t) THEN VNum(DigitsToNat(t))
    ELSE IF t[1] \in {"-", "+"} /\ AllDigits(Tail(t))
    THEN VNum((IF t[1] = "-" THEN 0 - 1 ELSE 1) * DigitsToNat(Tail(t)))
    ELSE VNaN

StringToNumber(str) == StrNumericLiteral(Trim(str))

\* Number(value): a number value or VNaN
ToNumber(v) ==
    CASE v.t \in {"number", "infinity"} -> v
      [] v.t \in {"string", "array"} -> StringToNumber(JsString(v))
      [] v.t = "boolean" -> IF v.b THEN VNum(1) ELSE VNum(0)
      [] v.t = "null" -> VNum(0)
      [] OTHER -> VNaN

isNaN(v) == v.t = "nan"

\* x > y and x < y on two numbers: false when either is NaN
InfinityRank(x) == IF x.t = "infinity" THEN x.n ELSE 0
NumberGreater(x, y) ==
    /\ ~isNaN(x)
    /\ ~isNaN(y)
    /\ \/ InfinityRank(x) > InfinityRank(y)
       \/ x.t = "number" /\ y.t = "number" /\ x.n > y.n
NumberLess(x, y) ==
    /\ ~isNaN(x)
    /\ ~isNaN(y)
    /\ \/ InfinityRank(x) < InfinityRank(y)
       \/ x.t = "number" /\ y.t = "number" /\ x.n < y.n

(***************************************************************************)
(* lib/forms/logic.ts                                                      *)
(***************************************************************************)
\* the calls of evaluateVisibility made so far, each with its answers and its map
VARIABLE visibilityCalls

\* answers[questionId]: a missing key reads as undefined
Answer(answers, questionId) ==
    IF questionId \in DOMAIN answers THEN answers[questionId] ELSE VUndef

Operators == {"equals", "notEquals", "contains", "greaterThan", "lessThan"}

\* C20 mutant: a list answer is stringified and searched like a scalar
evaluateCondition_ContainsJoinsList(condition, answers) ==
    LET answer == Answer(answers, condition.questionId)
        value == condition.value
    IN  IF answer.t = "undefined" \/ answer.t = "null" \/ answer = VStr(S_empty)
        THEN FALSE
        ELSE CASE condition.operator = "equals" -> JsString(answer) = JsString(value)
               [] condition.operator = "notEquals" -> JsString(answer) # JsString(value)
               [] condition.operator = "contains" ->
                     Includes(JsString(answer), JsString(value))
               [] condition.operator = "greaterThan" ->
                     NumberGreater(ToNumber(answer), ToNumber(value))
               [] condition.operator = "lessThan" ->
                     NumberLess(ToNumber(answer), ToNumber(value))
               [] OTHER -> FALSE

\* C5 mutant: the early return for an unanswered source is missing
evaluateCondition_NoUnansweredGuard(condition, answers) ==
    LET answer == Answer(answers, condition.questionId)
        value == condition.value
    IN  CASE condition.operator = "equals" -> JsString(answer) = JsString(value)
          [] condition.operator = "notEquals" -> JsString(answer) # JsString(value)
          [] condition.operator = "contains" ->
                IF answer.t = "array" THEN ArrayIncludes(answer.a, JsString(value))
                ELSE Includes(JsString(answer), JsString(value))
          [] condition.operator = "greaterThan" ->
                NumberGreater(ToNumber(answer), ToNumber(value))
          [] condition.operator = "lessThan" ->
                NumberLess(ToNumber(answer), ToNumber(value))
          [] OTHER -> FALSE

evaluateCondition(condition, answers) ==
    LET answer == Answer(answers, condition.questionId)
        value == condition.value
    IN  IF answer.t = "undefined" \/ answer.t = "null" \/ answer = VStr(S_empty)
        THEN FALSE
        ELSE CASE condition.operator = "equals" -> JsString(answer) = JsString(value)
               [] condition.operator = "notEquals" -> JsString(answer) # JsString(value)
               [] condition.operator = "contains" ->
                     IF answer.t = "array" THEN ArrayIncludes(answer.a, JsString(value))
                     ELSE Includes(JsString(answer), JsString(value))
               [] condition.operator = "greaterThan" ->
                     NumberGreater(ToNumber(answer), ToNumber(value))
               [] condition.operator = "lessThan" ->
                     NumberLess(ToNumber(answer), ToNumber(value))
               [] OTHER -> FALSE

\* C12 mutant: the loop takes no notice of show-rules
RuleStep_ShowRuleIgnored(rule, conditionResult, acc) ==
    IF rule.action = "hide"
    THEN [acc EXCEPT !.hasHideRule = TRUE,
                     !.hideRuleResult = acc.hideRuleResult \/ conditionResult]
    ELSE acc

\* one iteration of the loop over the rules: the accumulators after a rule
\* whose condition evaluated to conditionResult
RuleStep(rule, conditionResult, acc) ==
    IF rule.action = "show"
    THEN [acc EXCEPT !.hasShowRule = TRUE,
                     !.showRuleResult = acc.showRuleResult \/ conditionResult]
    ELSE IF rule.action = "hide"
    THEN [acc EXCEPT !.hasHideRule = TRUE,
                     !.hideRuleResult = acc.hideRuleResult \/ conditionResult]
    ELSE acc

\* the four accumulators of evaluateQuestionLogic after the loop over the rules
RECURSIVE RuleLoop(_, _, _)
RuleLoop(logicRules, answers, acc) ==
    IF Len(logicRules) = 0 THEN acc
    ELSE RuleLoop(Tail(logicRules), answers,
                  RuleStep(Head(logicRules),
                           evaluateCondition(Head(logicRules).condition, answers),
                           acc))

RuleLoopStart ==
    [hasShowRule |-> FALSE, showRuleResult |-> FALSE,
     hasHideRule |-> FALSE, hideRuleResult |-> FALSE]

\* C3 mutant: with a show-rule present the hide-rules are not consulted
evaluateQuestionLogic_ShowIgnoresHide(questionId, logicRules, answers) ==
    IF Len(logicRules) = 0 THEN TRUE
    ELSE LET acc == RuleLoop(logicRules, answers, RuleLoopStart)
         IN  IF acc.hasShowRule THEN acc.showRuleResult
             ELSE IF acc.hasHideRule THEN ~acc.hideRuleResult
             ELSE TRUE

\* C4 mutant: a list of hide-rules hides its subject whatever the conditions say
evaluateQuestionLogic_HideAlways(questionId, logicRules, answers) ==
    IF Len(logicRules) = 0 THEN TRUE
    ELSE LET acc == RuleLoop(logicRules, answers, RuleLoopStart)
         IN  IF acc.hasShowRule
             THEN (IF acc.hasHideRule /\ acc.hideRuleResult THEN FALSE
                   ELSE acc.showRuleResult)
             ELSE IF acc.hasHideRule THEN FALSE
             ELSE TRUE

\* the decision evaluateQuestionLogic takes from the accumulators
LogicDecision(acc) ==
    IF acc.hasShowRule
    THEN (IF acc.hasHideRule /\ acc.hideRuleResult THEN FALSE
          ELSE acc.showRuleResult)
    ELSE IF acc.hasHideRule THEN ~acc.hideRuleResult
    ELSE TRUE

evaluateQuestionLogic(questionId, logicRules, answers) ==
    IF Len(logicRules) = 0 THEN TRUE
    ELSE LogicDecision(RuleLoop(logicRules, answers, RuleLoopStart))

\* visibility[key] = value on a Record<string, boolean>
Put(map, key, value) ==
    [k \in (DOMAIN map) \cup {key} |-> IF k = key THEN value ELSE map[k]]

EmptyMap == [k \in {} |-> FALSE]

\* C1 mutant: a question of a hidden section is still judged by its own rules
QuestionEntry_NoShortCircuit(question, sectionVisible, answers) ==
    IF Len(question.logic) > 0
    THEN evaluateQuestionLogic(question.id, question.logic, answers)
    ELSE TRUE

\* the entry evaluateVisibility records for one question of a section
QuestionEntry(question, sectionVisible, answers) ==
    IF ~sectionVisible THEN FALSE
    ELSE IF Len(question.logic) > 0
    THEN evaluateQuestionLogic(question.id, question.logic, answers)
    ELSE TRUE

\* the inner forEach of evaluateVisibility over one section's questions
RECURSIVE VisitQuestions(_, _, _, _)
VisitQuestions(questions, sectionVisible, answers, visibility) ==
    IF Len(questions) = 0 THEN visibility
    ELSE LET question == Head(questions)
         IN  VisitQuestions(Tail(questions), sectionVisible, answers,
                            Put(visibility, question.id,
                                QuestionEntry(question, sectionVisible, answers)))

\* the outer forEach of evaluateVisibility over the sections
RECURSIVE VisitSections(_, _, _)
VisitSections(sections, answers, visibility) ==
    IF Len(sections) = 0 THEN visibility
    ELSE LET section == Head(sections)
             sectionVisible == IF Len(section.logic) > 0
                               THEN evaluateQuestionLogic(section.id, section.logic, answers)
                               ELSE TRUE
         IN  VisitSections(Tail(sections), answers,
                           VisitQuestions(section.questions, sectionVisible, answers,
                                          Put(visibility, section.id, sectionVisible)))

\* C21 mutant: the answer of a question that the map hides is not readable by rules
evaluateVisibility_HiddenSourceUnreadable(form, answers) ==
    LET first == VisitSections(form.sections, answers, EmptyMap)
        readable == {k \in DOMAIN answers : k \notin DOMAIN first \/ first[k]}
    IN  VisitSections(form.sections, [k \in readable |-> answers[k]], EmptyMap)

\* C11 mutant: an entry that was false in the map of the previous call stays false
evaluateVisibility_KeepsHidden(form, answers) ==
    LET fresh == VisitSections(form.sections, answers, EmptyMap)
        last == IF Len(visibilityCalls) = 0 THEN EmptyMap
                ELSE visibilityCalls[Len(visibilityCalls)].map
    IN  [k \in DOMAIN fresh |-> fresh[k] /\ (k \notin DOMAIN last \/ last[k])]

evaluateVisibility(form, answers) == VisitSections(form.sections, answers, EmptyMap)

\* form.sections.flatMap((s) => s.questions)
RECURSIVE FlatQuestions(_)
FlatQuestions(sections) ==
    IF Len(sections) = 0 THEN <<>>
    ELSE Head(sections).questions \o FlatQuestions(Tail(sections))

(***************************************************************************)
(* lib/forms/questionUtils.ts                                              *)
(***************************************************************************)
\* C9 mutant: consent is only recognised on a question declared required
isConsentQuestion_OnlyWhenRequired(question) ==
    /\ question.required = "true"
    /\ question.type = "checkbox"
    /\ \/ Includes(ToLowerCase(question.label), S_consent)
       \/ Includes(ToLowerCase(question.label), S_agree)
       \/ Includes(ToLowerCase(question.label), S_accept)
       \/ Includes(ToLowerCase(question.label), S_terms)

isConsentQuestion(question) ==
    /\ question.type = "checkbox"
    /\ \/ Includes(ToLowerCase(question.label), S_consent)
       \/ Includes(ToLowerCase(question.label), S_agree)
       \/ Includes(ToLowerCase(question.label), S_accept)
       \/ Includes(ToLowerCase(question.label), S_terms)

\* C10 mutant: the label is matched without lower-casing it and for any type
isSignatureQuestion_AnyTypeCaseSensitive(question) ==
    \/ Includes(question.label, S_signature)
    \/ Includes(question.label, S_sign)

isSignatureQuestion(question) ==
    /\ question.type = "text"
    /\ \/ Includes(ToLowerCase(question.label), S_signature)
       \/ Includes(ToLowerCase(question.label), S_sign)

HasOptions(question) == Len(question.options) > 0

getQuestionDefaultValue(question) ==
    IF question.type = "checkbox" /\ HasOptions(question) THEN VArr(<<>>)
    ELSE IF question.type = "checkbox" THEN VBool(FALSE)
    ELSE IF question.type = "number" THEN VNum(0)
    ELSE VStr(S_empty)

(***************************************************************************)
(* lib/forms/validation: the zod schemas buildQuestionSchema composes.     *)
(* A schema is the record of what was composed: the base type, whether the *)
(* input is coerced, the checks in the order they were added, optional(),  *)
(* and the refinement wrapped around it.                                   *)
(***************************************************************************)
MsgFillField == "Zapolnite pozhaluysta dannoe pole"
MsgEmail == "Please enter a valid email address"
MsgPhoneRequired == "Phone number is required"
MsgPhone == "Please enter a valid phone number"
MsgMinimum == "Minimum value is {min}"
MsgMaximum == "Maximum value is {max}"
MsgLabelRequired == "{label} is required"
MsgPleaseSelect == "Please select {label}"
MsgConsent == "You must provide consent to continue"
\* zod's own messages for a missing input and for an input of the wrong type
MsgRequired == "Required"
MsgInvalidType == "Invalid input type"

Check(kind, value, message) == [kind |-> kind, value |-> value, message |-> message]

ZSchema(base, coerce, checks, optional, refine) ==
    [base |-> base, coerce |-> coerce, checks |-> checks, optional |-> optional,
     refine |-> refine]

\* z.any().optional()
ZAnyOptional == ZSchema("any", FALSE, <<>>, TRUE, <<>>)

\* one element of a pattern: between min and max characters of the set chars
Piece(chars, min, max) == [chars |-> chars, min |-> min, max |-> max]

\* str from position pos on matches the pieces idx.. of pattern, to its end
RECURSIVE MatchFrom(_, _, _, _)
MatchFrom(str, pos, pattern, idx) ==
    IF idx > Len(pattern) THEN pos = Len(str) + 1
    ELSE \E k \in pattern[idx].min..pattern[idx].max :
            /\ pos + k - 1 <= Len(str)
            /\ \A i \in pos..(pos + k - 1) : str[i] \in pattern[idx].chars
            /\ MatchFrom(str, pos + k, pattern, idx + 1)

PhoneSeparators == {"-", " ", "."}

PHONE_REGEX ==
    <<Piece({"+"}, 0, 1), Piece({"("}, 0, 1), Piece(DigitChars, 1, 4), Piece({")"}, 0, 1),
      Piece(PhoneSeparators, 0, 1), Piece({"("}, 0, 1), Piece(DigitChars, 1, 4),
      Piece({")"}, 0, 1), Piece(PhoneSeparators, 0, 1), Piece(DigitChars, 1, 9)>>

PhoneTest(str) == MatchFrom(str, 1, PHONE_REGEX, 1)

LetterChars == {LowerCase[i] : i \in 1..26} \cup {UpperCase[i] : i \in 1..26}
AlnumChars == LetterChars \cup DigitChars

\* zod's email pattern: a local part of [A-Z0-9_'+-.] that neither starts nor ends
\* with a dot, no two dots in a row anywhere, '@', dot-terminated labels that
\* start with a letter or digit, and a top-level label of at least two letters
IsEmail(str) ==
    /\ ~Includes(str, <<".", ".">>)
    /\ \E at \in 2..Len(str) :
        /\ str[at] = "@"
        /\ str[1] # "."
        /\ \A i \in 1..(at - 1) : str[i] \in AlnumChars \cup {"_", "'", "+", "-", "."}
        /\ str[at - 1] \in AlnumChars \cup {"_", "+", "-"}
        /\ \E dot \in (at + 2)..(Len(str) - 2) :
            /\ str[dot] = "."
            /\ \A i \in (dot + 1)..Len(str) : str[i] \in LetterChars
            /\ str[at + 1] \in AlnumChars
            /\ \A i \in (at + 1)..(dot - 1) : str[i] \in AlnumChars \cup {"-", "."}
            /\ \A i \in (at + 2)..(dot - 1) : str[i - 1] = "." => str[i] \in AlnumChars

\* the issue messages of one check on a value that has the schema's base type
CheckIssues(check, v) ==
    CASE check.kind = "min" /\ v.t = "string" ->
            IF Len(v.s) < check.value THEN <<check.message>> ELSE <<>>
      [] check.kind = "min" /\ v.t = "array" ->
            IF Len(v.a) < check.value THEN <<check.message>> ELSE <<>>
      [] check.kind = "min" /\ v.t \in {"number", "infinity"} ->
            IF NumberLess(v, VNum(check.value)) THEN <<check.message>> ELSE <<>>
      [] check.kind = "max" /\ v.t \in {"number", "infinity"} ->
            IF NumberGreater(v, VNum(check.value)) THEN <<check.message>> ELSE <<>>
      [] check.kind = "email" -> IF IsEmail(v.s) THEN <<>> ELSE <<check.message>>
      [] check.kind = "regex" -> IF PhoneTest(v.s) THEN <<>> ELSE <<check.message>>
      [] OTHER -> <<>>

\* every check runs, in the order added, each adding its issue
RECURSIVE ChecksIssues(_, _)
ChecksIssues(checks, v) ==
    IF Len(checks) = 0 THEN <<>>
    ELSE CheckIssues(Head(checks), v) \o ChecksIssues(Tail(checks), v)

\* the refinement functions buildQuestionSchema passes to refine()
RefineHolds(kind, v) ==
    CASE kind = "isTrue" -> v = VBool(TRUE)
      [] kind = "phoneOrEmpty" -> v.t = "undefined" \/ v.s = S_empty \/ PhoneTest(v.s)
      [] OTHER -> TRUE

RECURSIVE RefineIssues(_, _)
RefineIssues(refine, v) ==
    IF Len(refine) = 0 THEN <<>>
    ELSE (IF RefineHolds(Head(refine).kind, v) THEN <<>> ELSE <<Head(refine).message>>)
         \o RefineIssues(Tail(refine), v)

\* the base type's own test of the input; a failure aborts the field
BaseTypeOk(base, v) ==
    CASE base = "any" -> TRUE
      [] base = "string" -> v.t = "string"
      [] base = "number" -> v.t \in {"number", "infinity"}
      [] base = "boolean" -> v.t = "boolean"
      [] base = "array" -> v.t = "array"
      [] OTHER -> FALSE

\* the messages schema.safeParse(v) reports for one field, in order
FieldIssues(schema, v) ==
    IF schema.optional /\ v.t = "undefined" THEN RefineIssues(schema.refine, v)
    ELSE LET input == IF schema.coerce THEN ToNumber(v) ELSE v
         IN  IF ~BaseTypeOk(schema.base, input)
             THEN <<IF input.t = "undefined" THEN MsgRequired ELSE MsgInvalidType>>
             ELSE ChecksIssues(schema.checks, input) \o RefineIssues(schema.refine, input)

Truthy(required) == required = "true"

buildQuestionSchema(question) ==
    CASE question.type \in {"text", "textarea", "email"} ->
            IF isSignatureQuestion(question)
            THEN ZSchema("string", FALSE, <<Check("min", 1, MsgFillField)>>, FALSE, <<>>)
            ELSE ZSchema("string", FALSE,
                         (IF question.type = "email" /\ question.validation.hasPattern
                          THEN <<Check("email", 0, MsgEmail)>> ELSE <<>>)
                         \o (IF Truthy(question.required)
                             THEN <<Check("min", 1, MsgFillField)>> ELSE <<>>),
                         ~Truthy(question.required), <<>>)
      [] question.type = "tel" ->
            IF Truthy(question.required)
            THEN ZSchema("string", FALSE,
                         <<Check("min", 1, MsgPhoneRequired), Check("regex", 0, MsgPhone)>>,
                         FALSE, <<>>)
            ELSE ZSchema("string", FALSE, <<>>, TRUE,
                         <<[kind |-> "phoneOrEmpty", message |-> MsgPhone]>>)
      [] question.type = "number" ->
            ZSchema("number", TRUE,
                    (IF question.validation.hasMin
                     THEN <<Check("min", question.validation.min, MsgMinimum)>> ELSE <<>>)
                    \o (IF question.validation.hasMax
                        THEN <<Check("max", question.validation.max, MsgMaximum)>> ELSE <<>>)
                    \o (IF Truthy(question.required)
                        THEN <<Check("min", 0, MsgFillField)>> ELSE <<>>),
                    ~Truthy(question.required), <<>>)
      [] question.type = "date" ->
            IF Truthy(question.required)
            THEN ZSchema("string", FALSE, <<Check("min", 1, MsgLabelRequired)>>, FALSE, <<>>)
            ELSE ZSchema("string", FALSE, <<>>, TRUE, <<>>)
      [] question.type = "select" ->
            IF Truthy(question.required)
            THEN ZSchema("string", FALSE, <<Check("min", 1, MsgFillField)>>, FALSE, <<>>)
            ELSE ZSchema("string", FALSE, <<>>, TRUE, <<>>)
      [] question.type = "radio" ->
            IF Truthy(question.required)
            THEN ZSchema("string", FALSE, <<Check("min", 1, MsgPleaseSelect)>>, FALSE, <<>>)
            ELSE ZSchema("string", FALSE, <<>>, TRUE, <<>>)
      [] question.type = "checkbox" ->
            IF isConsentQuestion(question)
            THEN ZSchema("boolean", FALSE, <<>>, FALSE,
                         <<[kind |-> "isTrue", message |-> MsgConsent]>>)
            ELSE IF HasOptions(question)
            THEN (IF Truthy(question.required)
                  THEN ZSchema("array", FALSE, <<Check("min", 1, MsgFillField)>>, FALSE, <<>>)
                  ELSE ZSchema("array", FALSE, <<>>, TRUE, <<>>))
            ELSE IF Truthy(question.required)
            THEN ZSchema("boolean", FALSE, <<>>, FALSE,
                         <<[kind |-> "isTrue", message |-> MsgFillField]>>)
            ELSE ZSchema("boolean", FALSE, <<>>, TRUE, <<>>)
      [] question.type = "file" -> ZAnyOptional
      [] OTHER -> ZSchema("string", FALSE, <<>>, TRUE, <<>>)

\* C6 mutant: a hidden question keeps its own schema with optional() added
HiddenQuestionSchema_OwnSchemaOptional(question) ==
    [buildQuestionSchema(question) EXCEPT !.optional = TRUE]

\* the schema buildZodSchema records for a question outside visibleQuestionIds
HiddenQuestionSchema(question) == ZAnyOptional

\* schemaObject: one entry per question, in the order the loops insert them
RECURSIVE SchemaEntries(_, _)
SchemaEntries(questions, visibleQuestionIds) ==
    IF Len(questions) = 0 THEN <<>>
    ELSE LET question == Head(questions)
         IN  <<[key |-> question.id,
                schema |-> IF question.id \notin visibleQuestionIds
                           THEN HiddenQuestionSchema(question)
                           ELSE buildQuestionSchema(question)]>>
             \o SchemaEntries(Tail(questions), visibleQuestionIds)

\* the question ids drawn anywhere in the model that are canonical array
\* indexes ("integer-like" property keys), each with its numeric value
ArrayIndex == [k \in {"1", "2", "10"} |-> CASE k = "1" -> 1 [] k = "2" -> 2 [] OTHER -> 10]
IsArrayIndex(key) == key \in DOMAIN ArrayIndex

\* the entries under integer-like keys, in ascending numeric order
RECURSIVE AscendingIndexEntries(_, _)
AscendingIndexEntries(entries, remaining) ==
    IF remaining = {} THEN <<>>
    ELSE LET least == CHOOSE i \in remaining :
                         \A j \in remaining :
                             ArrayIndex[entries[i].key] <= ArrayIndex[entries[j].key]
         IN  <<entries[least]>> \o AscendingIndexEntries(entries, remaining \ {least})

\* the order in which z.object enumerates the keys of schemaObject
\* (Object.keys): integer-like keys first, ascending, then the other keys in
\* the order they were assigned
OwnPropertyOrder(entries) ==
    AscendingIndexEntries(entries, {i \in 1..Len(entries) : IsArrayIndex(entries[i].key)})
    \o SelectSeq(entries, LAMBDA entry : ~IsArrayIndex(entry.key))

buildZodSchema(f, visibleQuestionIds) ==
    OwnPropertyOrder(SchemaEntries(FlatQuestions(f.sections), visibleQuestionIds))

\* the issues of one field, each with the field's key as its path
RECURSIVE WithPath(_, _)
WithPath(key, messages) ==
    IF Len(messages) = 0 THEN <<>>
    ELSE <<[path |-> key, message |-> Head(messages)]>> \o WithPath(key, Tail(messages))

\* z.object(schemaObject).safeParse(data).error.issues; <<>> when it succeeds
RECURSIVE safeParse(_, _)
safeParse(schemaObject, data) ==
    IF Len(schemaObject) = 0 THEN <<>>
    ELSE WithPath(Head(schemaObject).key,
                  FieldIssues(Head(schemaObject).schema, Answer(data, Head(schemaObject).key)))
         \o safeParse(Tail(schemaObject), data)

\* the output of one field's schema for a value it accepts
FieldOutput(schema, v) ==
    IF schema.optional /\ v.t = "undefined" THEN v
    ELSE IF schema.coerce THEN ToNumber(v)
    ELSE v

\* z.object(schemaObject).safeParse(data).data when it succeeds: the keys of
\* the shape that data has, each with its field's output; other keys are stripped
RECURSIVE safeParseData(_, _)
safeParseData(schemaObject, data) ==
    IF Len(schemaObject) = 0 THEN EmptyMap
    ELSE IF Head(schemaObject).key \in DOMAIN data
    THEN Put(safeParseData(Tail(schemaObject), data), Head(schemaObject).key,
             FieldOutput(Head(schemaObject).schema, data[Head(schemaObject).key]))
    ELSE safeParseData(Tail(schemaObject), data)

(***************************************************************************)
(* State.                                                                  *)
(***************************************************************************)
VARIABLES
    logicRules,     \* evaluateQuestionLogic: the subject's rule list
    logicAnswers,   \* evaluateQuestionLogic: the answers it reads
    logicOut,       \* what evaluateCondition returned for each rule, and the subject's visibility
    form,           \* the Form a call or the mounted component is given
    answers,        \* evaluateVisibility: the answers it reads
    visibilityOut,  \* evaluateVisibility: the map it returned
    visibleQuestionIds, \* buildZodSchema: the ids it is told are visible
    parseData,      \* safeParse: the data handed to the schema
    parseOut,       \* safeParse: the issues it reported
    pageState,      \* FormRenderer: "form" while mounted, "navigating" once the redirect is assigned, "gone"
    mounted,        \* FormRenderer: the effects of the first render have run
    effectsPending, \* FormRenderer: a render is committed whose effects have not run yet
    formValues,     \* useForm: the values react-hook-form holds (watch())
    prevVisibility, \* prevVisibility.current
    fileInputs,     \* fileInputsRef.current: the file questions whose input holds files
    errors,         \* formState.errors: the fields the resolver rejected at the last handleSubmit
    isSubmitting,   \* useState isSubmitting
    submitError,    \* useState submitError
    request,        \* the POST to /api/submit/<slug> in flight
    localStorage,   \* localStorage item form-draft-<slug>
    saveTimer,      \* the autosave effect's setTimeout and the formData it captured
    storedForms,    \* data/forms: the id of the form stored in <slug>.json, per slug
    saveRequests,   \* POST /api/admin/forms/save: the requests and where each one stands
    submitRequest,  \* POST /api/submit/<slug>: the request and where it stands
    uploadDir,      \* tmp/uploads: the submission folders, their files and mtime
    email,          \* sendSubmissionEmail: its arguments and its locals
    clock,          \* Date.now(), in days
    cleanup         \* cleanupExpiredFiles: its locals

logicVars == <<logicRules, logicAnswers, logicOut>>
visibilityVars == <<answers, visibilityOut, visibilityCalls>>
validationVars == <<visibleQuestionIds, parseData, parseOut>>
rendererVars == <<pageState, mounted, effectsPending, formValues, prevVisibility, fileInputs,
                  errors, isSubmitting, submitError, request, localStorage, saveTimer>>
serverVars == <<storedForms, saveRequests, submitRequest, uploadDir, email, clock, cleanup>>
vars == <<logicRules, logicAnswers, logicOut, form, answers, visibilityOut, visibilityCalls,
          visibleQuestionIds, parseData, parseOut, pageState, mounted, effectsPending,
          formValues, prevVisibility, fileInputs, errors, isSubmitting, submitError,
          request, localStorage, saveTimer, storedForms, saveRequests, submitRequest,
          uploadDir, email, clock, cleanup>>

(***************************************************************************)
(* Forms (schema: Form, Section, Question, Logic).  An optional field that *)
(* the code only tests for truthiness or length is held as its empty       *)
(* value: logic and options as <<>>, validation.min/max/pattern by a flag. *)
(* required is "true", "false" or "unset".                                 *)
(***************************************************************************)
NoValidation ==
    [hasMin |-> FALSE, min |-> 0, hasMax |-> FALSE, max |-> 0, hasPattern |-> FALSE]

Question(id, type, label, required, options, validation, logic) ==
    [id |-> id, type |-> type, label |-> label, required |-> required,
     options |-> options, validation |-> validation, logic |-> logic]

Section(id, questions, logic) == [id |-> id, questions |-> questions, logic |-> logic]

AllQuestions(f) == FlatQuestions(f.sections)
QuestionIds(f) == {AllQuestions(f)[i].id : i \in 1..Len(AllQuestions(f))}
SectionIds(f) == {f.sections[i].id : i \in 1..Len(f.sections)}
\* .find((q) => q.id === id), for an id the form has
FindQuestion(f, id) ==
    AllQuestions(f)[CHOOSE i \in 1..Len(AllQuestions(f)) : AllQuestions(f)[i].id = id]


LogicIdle == logicRules = <<>> /\ logicAnswers = EmptyMap /\ logicOut = [done |-> FALSE]
VisibilityIdle ==
    answers = EmptyMap /\ visibilityOut = [done |-> FALSE] /\ visibilityCalls = <<>>
ValidationIdle ==
    visibleQuestionIds = {} /\ parseData = EmptyMap /\ parseOut = [done |-> FALSE]
NoRequest == [sent |-> FALSE, answers |-> EmptyMap, files |-> {}]
NoItem == [present |-> FALSE, data |-> EmptyMap]
NoTimer == [armed |-> FALSE, data |-> EmptyMap]
ServerIdle ==
    /\ storedForms = EmptyMap
    /\ saveRequests = EmptyMap
    /\ submitRequest = [pc |-> "none"]
    /\ uploadDir = EmptyMap
    /\ email = [pc |-> "none"]
    /\ clock = 0
    /\ cleanup = [pc |-> "none"]
RendererIdle ==
    /\ pageState = "gone"
    /\ mounted = FALSE
    /\ effectsPending = FALSE
    /\ formValues = EmptyMap
    /\ prevVisibility = EmptyMap
    /\ fileInputs = {}
    /\ errors = {}
    /\ isSubmitting = FALSE
    /\ submitError = "null"
    /\ request = NoRequest
    /\ localStorage = NoItem
    /\ saveTimer = NoTimer

(***************************************************************************)
(* SpecLogic: evaluateCondition and evaluateQuestionLogic on drawn inputs. *)
(***************************************************************************)
\* the source question every drawn condition names
SourceId == "q1"

\* comparison values drawn for a condition (string | number | boolean)
ConditionValues == {VStr(S_yes), VStr(S_ye), VNum(5)}

\* 'require' stands for the two actions of the Logic type that neither show nor hide
Actions == {"show", "hide", "require"}

Rules ==
    {[condition |-> [questionId |-> SourceId, operator |-> op, value |-> val],
      action |-> act] : op \in Operators, val \in ConditionValues, act \in Actions}

RuleLists == UNION {[1..len -> Rules] : len \in 0..MaxRules}

\* values the source question can hold; VUndef stands for a missing key
SourceAnswers ==
    {VUndef, VNull, VStr(S_empty), VStr(S_yes), VStr(S_no), VStr(S_5), VStr(S_17),
     VStr(S_Infinity),
     VNum(0), VNum(7), VBool(TRUE), VBool(FALSE),
     VArr(<<>>), VArr(<<S_yes>>), VArr(<<S_no, S_5>>)}

AnswersOf(sourceValue) ==
    IF sourceValue = VUndef THEN EmptyMap
    ELSE [k \in {SourceId} |-> sourceValue]

LogicNotRun == [done |-> FALSE, conditions |-> <<>>, visible |-> FALSE]

InitLogic ==
    /\ logicRules \in RuleLists
    /\ logicAnswers \in {AnswersOf(v) : v \in SourceAnswers}
    /\ logicOut = LogicNotRun
    /\ form = [sections |-> <<>>]
    /\ VisibilityIdle
    /\ ValidationIdle
    /\ RendererIdle
    /\ ServerIdle

\* one call of evaluateQuestionLogic; the condition results are those of its loop
CallEvaluateQuestionLogic ==
    /\ ~logicOut.done
    /\ logicOut' =
         [done |-> TRUE,
          conditions |-> [i \in 1..Len(logicRules) |->
                             evaluateCondition(logicRules[i].condition, logicAnswers)],
          visible |-> evaluateQuestionLogic("subject", logicRules, logicAnswers)]
    /\ UNCHANGED <<logicRules, logicAnswers, form>>
    /\ UNCHANGED <<visibilityVars, validationVars, rendererVars, serverVars>>

NextLogic == CallEvaluateQuestionLogic

SpecLogic == InitLogic /\ [][NextLogic]_vars

ShowRuleIndexes == {i \in 1..Len(logicRules) : logicRules[i].action = "show"}
HideRuleIndexes == {i \in 1..Len(logicRules) : logicRules[i].action = "hide"}
SourceUnanswered ==
    Answer(logicAnswers, SourceId) \in {VUndef, VNull, VStr(S_empty)}

\* C3: a subject whose rule list has at least one show-rule is visible iff some
\* show-rule's condition is true and no hide-rule's condition is true.
C3_ShowRulesNeedATrueShowAndNoTrueHide ==
    (logicOut.done /\ ShowRuleIndexes # {}) =>
        (logicOut.visible <=>
            /\ \E i \in ShowRuleIndexes : logicOut.conditions[i]
            /\ \A i \in HideRuleIndexes : ~logicOut.conditions[i])

\* a true show-rule together with a true hide-rule has been evaluated (Scenario E)
C3_Witness ==
    /\ logicOut.done
    /\ \E i \in ShowRuleIndexes : logicOut.conditions[i]
    /\ \E i \in HideRuleIndexes : logicOut.conditions[i]
    /\ ~logicOut.visible

\* C4: a subject whose rules are all hide-rules is visible iff no hide-rule's
\* condition is true; a subject with an empty rule list is visible.
C4_HideOnlyIsNegationAndNoRulesVisible ==
    logicOut.done =>
        /\ (Len(logicRules) > 0 /\ HideRuleIndexes = 1..Len(logicRules)) =>
              (logicOut.visible <=> \A i \in HideRuleIndexes : ~logicOut.conditions[i])
        /\ (Len(logicRules) = 0) => logicOut.visible

\* two hide-rules, one of them false and one true, have hidden the subject
C4_Witness ==
    /\ logicOut.done
    /\ Len(logicRules) = 2
    /\ HideRuleIndexes = {1, 2}
    /\ ~logicOut.conditions[1]
    /\ logicOut.conditions[2]
    /\ ~logicOut.visible

\* C5: evaluateCondition is false for every operator and comparison value when the
\* source's answer is absent, null or the empty string.
C5_UnansweredSourceIsFalse ==
    (logicOut.done /\ SourceUnanswered) =>
        \A i \in 1..Len(logicRules) : ~logicOut.conditions[i]

\* a notEquals condition has been evaluated against a null answer
C5_Witness ==
    /\ logicOut.done
    /\ Answer(logicAnswers, SourceId) = VNull
    /\ Len(logicRules) > 0
    /\ logicRules[1].condition.operator = "notEquals"
    /\ ~logicOut.conditions[1]

\* the rules of the drawn list with a given operator
RulesWith(ops) == {i \in 1..Len(logicRules) : logicRules[i].condition.operator \in ops}
SourceAnswer == Answer(logicAnswers, SourceId)

\* a value that converts to a finite number, as the condition evaluator is
\* specified: a number, a boolean or a numeric string, and no list
ConvertsToFiniteNumber(v) == v.t # "array" /\ ToNumber(v).t = "number"

\* C18: with an answered source, greaterThan (lessThan) is false when the
\* answer or the comparison value does not convert to a finite number, and is
\* the strict comparison of the two numbers otherwise.
C18_NumericComparisonNeedsFiniteNumbers ==
    (logicOut.done /\ ~SourceUnanswered) =>
        \A i \in RulesWith({"greaterThan", "lessThan"}) :
            logicOut.conditions[i] <=>
                /\ ConvertsToFiniteNumber(SourceAnswer)
                /\ ConvertsToFiniteNumber(logicRules[i].condition.value)
                /\ IF logicRules[i].condition.operator = "greaterThan"
                   THEN ToNumber(SourceAnswer).n > ToNumber(logicRules[i].condition.value).n
                   ELSE ToNumber(SourceAnswer).n < ToNumber(logicRules[i].condition.value).n

\* C20: with an answered source, contains on a list answer is true iff the
\* stringified comparison value is one of the elements, and on a scalar answer
\* iff it is a substring of the stringified answer.
C20_ContainsElementOrSubstring ==
    (logicOut.done /\ ~SourceUnanswered) =>
        \A i \in RulesWith({"contains"}) :
            logicOut.conditions[i] <=>
                IF SourceAnswer.t = "array"
                THEN \E k \in 1..Len(SourceAnswer.a) :
                        SourceAnswer.a[k] = JsString(logicRules[i].condition.value)
                ELSE \E from \in 1..(Len(JsString(SourceAnswer)) + 1) :
                        \E to \in (from - 1)..Len(JsString(SourceAnswer)) :
                            SubSeq(JsString(SourceAnswer), from, to) =
                                JsString(logicRules[i].condition.value)

\* the list ['yes'] does not contain 'ye' and contains 'yes'
C20_Witness ==
    /\ logicOut.done
    /\ SourceAnswer = VArr(<<S_yes>>)
    /\ Len(logicRules) = 2
    /\ logicRules[1].condition.operator = "contains"
    /\ logicRules[1].condition.value = VStr(S_ye)
    /\ ~logicOut.conditions[1]
    /\ logicRules[2].condition.operator = "contains"
    /\ logicRules[2].condition.value = VStr(S_yes)
    /\ logicOut.conditions[2]

(***************************************************************************)
(* SpecVisibility: evaluateVisibility on drawn forms and answers.          *)
(***************************************************************************)
FormRules ==
    {[condition |-> [questionId |-> SourceId, operator |-> op, value |-> VStr(S_yes)],
      action |-> act] : op \in {"equals", "notEquals", "contains"}, act \in {"show", "hide"}}

FormRuleLists == UNION {[1..len -> FormRules] : len \in 0..MaxFormRules}

\* section s1 holds the source q1; section s2 (rules sectionLogic) holds q2
\* (rules questionLogic) and q3 (no rules)
TwoSectionForm(sectionLogic, questionLogic) ==
    [sections |->
        <<Section("s1", <<Question("q1", "text", S_label, "false", <<>>, NoValidation, <<>>)>>,
                  <<>>),
          Section("s2", <<Question("q2", "text", S_label, "false", <<>>, NoValidation,
                                   questionLogic),
                          Question("q3", "text", S_label, "true", <<>>, NoValidation, <<>>)>>,
                  sectionLogic)>>]

InitVisibility ==
    /\ form \in {TwoSectionForm(sl, ql) : sl \in FormRuleLists, ql \in FormRuleLists}
    /\ answers \in {AnswersOf(v) : v \in SourceAnswers}
    /\ visibilityOut = [done |-> FALSE, map |-> EmptyMap]
    /\ visibilityCalls = <<>>
    /\ LogicIdle
    /\ ValidationIdle
    /\ RendererIdle
    /\ ServerIdle

CallEvaluateVisibility ==
    /\ ~visibilityOut.done
    /\ visibilityOut' = [done |-> TRUE, map |-> evaluateVisibility(form, answers)]
    /\ UNCHANGED <<form, answers, visibilityCalls>>
    /\ UNCHANGED <<logicVars, validationVars, rendererVars, serverVars>>

NextVisibility == CallEvaluateVisibility

SpecVisibility == InitVisibility /\ [][NextVisibility]_vars

\* C1: in the map evaluateVisibility returns, a section whose entry is false has
\* only questions whose entries are false.
C1_HiddenSectionHidesItsQuestions ==
    visibilityOut.done =>
        \A i \in 1..Len(form.sections) :
            (visibilityOut.map[form.sections[i].id] = FALSE) =>
                \A j \in 1..Len(form.sections[i].questions) :
                    visibilityOut.map[form.sections[i].questions[j].id] = FALSE

\* section s2 is hidden while q2's own rules, evaluated alone, would show it
C1_Witness ==
    /\ visibilityOut.done
    /\ visibilityOut.map["s2"] = FALSE
    /\ Len(form.sections[2].questions[1].logic) > 0
    /\ evaluateQuestionLogic("q2", form.sections[2].questions[1].logic, answers)
    /\ visibilityOut.map["q2"] = FALSE
    /\ visibilityOut.map["q3"] = FALSE

(***************************************************************************)
(* SpecRecompute: the visibility map recomputed for one answer set after   *)
(* another, as the renderer does on every change of its form data.         *)
(***************************************************************************)
\* a question id that no question of the form has
GhostId == "ghost"

RuleOn(source, op, value, action) ==
    [condition |-> [questionId |-> source, operator |-> op, value |-> value],
     action |-> action]

\* Scenario A: q2 is shown when q1 equals 'yes'
ScenarioAForm ==
    [sections |->
        <<Section("s1",
                  <<Question("q1", "text", S_label, "false", <<>>, NoValidation, <<>>),
                    Question("q2", "text", S_label, "false", <<>>, NoValidation,
                             <<RuleOn("q1", "equals", VStr(S_yes), "show")>>)>>,
                  <<>>)>>]

\* the comparison value a drawn rule on the ghost id has
GhostRuleValue(op) == IF op \in {"greaterThan", "lessThan"} THEN VNum(5) ELSE VStr(S_yes)

\* q2 has one show-rule and q3 one hide-rule, both on an id the form does not have
GhostForm(op) ==
    [sections |->
        <<Section("s1",
                  <<Question("q1", "text", S_label, "false", <<>>, NoValidation, <<>>),
                    Question("q2", "text", S_label, "false", <<>>, NoValidation,
                             <<RuleOn(GhostId, op, GhostRuleValue(op), "show")>>),
                    Question("q3", "text", S_label, "false", <<>>, NoValidation,
                             <<RuleOn(GhostId, op, GhostRuleValue(op), "hide")>>)>>,
                  <<>>)>>]

GhostForms == {GhostForm(op) : op \in Operators}
RecomputeForms == {ScenarioAForm} \cup GhostForms

\* the form data of a render: q1 as the visitor left it, and, when the draft was
\* saved under an earlier version of the form, the answer of a question that
\* version had (the draft-load effect calls setValue for every key of the draft)
RecomputeAnswers ==
    {[k \in (IF v1 = VUndef THEN {} ELSE {"q1"}) \cup (IF vg = VUndef THEN {} ELSE {GhostId}) |->
         IF k = "q1" THEN v1 ELSE vg] :
        v1 \in {VUndef, VStr(S_empty), VStr(S_yes), VStr(S_no)},
        vg \in {VUndef, VStr(S_yes), VStr(S_7)}}

InitRecompute ==
    /\ form \in RecomputeForms
    /\ answers = EmptyMap
    /\ visibilityOut = [done |-> FALSE, map |-> EmptyMap]
    /\ visibilityCalls = <<>>
    /\ LogicIdle
    /\ ValidationIdle
    /\ RendererIdle
    /\ ServerIdle

\* const visibility = useMemo(() => evaluateVisibility(form, formData), [form, formData])
\* in a render whose form data is formData
Recompute(formData) ==
    /\ Len(visibilityCalls) < MaxCalls
    /\ answers' = formData
    /\ visibilityOut' = [done |-> TRUE, map |-> evaluateVisibility(form, formData)]
    /\ visibilityCalls' =
         Append(visibilityCalls, [answers |-> formData, map |-> visibilityOut'.map])
    /\ UNCHANGED form
    /\ UNCHANGED <<logicVars, validationVars, rendererVars, serverVars>>

NextRecompute == \E formData \in RecomputeAnswers : Recompute(formData)

SpecRecompute == InitRecompute /\ [][NextRecompute]_vars

Q1Unanswered(formData) == Answer(formData, "q1") \in {VUndef, VStr(S_empty)}

\* C12: with q2 shown when q1 equals 'yes', every call shows q2 exactly when the
\* answers it is given have q1 = 'yes'; so along q1 unanswered, 'yes', 'no' the
\* question is hidden, visible, hidden.
C12_ScenarioA ==
    (form = ScenarioAForm) =>
        /\ \A i \in 1..Len(visibilityCalls) :
              visibilityCalls[i].map["q2"] <=>
                  (Answer(visibilityCalls[i].answers, "q1") = VStr(S_yes))
        /\ \A i \in 1..(Len(visibilityCalls) - 2) :
              (/\ Q1Unanswered(visibilityCalls[i].answers)
               /\ Answer(visibilityCalls[i + 1].answers, "q1") = VStr(S_yes)
               /\ Answer(visibilityCalls[i + 2].answers, "q1") = VStr(S_no))
              => /\ ~visibilityCalls[i].map["q2"]
                 /\ visibilityCalls[i + 1].map["q2"]
                 /\ ~visibilityCalls[i + 2].map["q2"]

\* the three calls of Scenario A have been made: hidden, visible, hidden again
C12_Witness ==
    /\ form = ScenarioAForm
    /\ Len(visibilityCalls) = 3
    /\ visibilityCalls[1].answers = EmptyMap
    /\ Answer(visibilityCalls[2].answers, "q1") = VStr(S_yes)
    /\ Answer(visibilityCalls[3].answers, "q1") = VStr(S_no)
    /\ ~visibilityCalls[1].map["q2"]
    /\ visibilityCalls[2].map["q2"]
    /\ ~visibilityCalls[3].map["q2"]

\* C19: a rule on an id the form does not have is false for every operator and
\* every answer set: q2, with only such a show-rule, is hidden in every map, and
\* q3, with only such a hide-rule, is visible in every map.
C19_GhostRuleIsAlwaysFalse ==
    (form \in GhostForms) =>
        \A i \in 1..Len(visibilityCalls) :
            /\ ~visibilityCalls[i].map["q2"]
            /\ visibilityCalls[i].map["q3"]

(***************************************************************************)
(* SpecValidation: buildZodSchema(form, visibleQuestionIds).safeParse(data)*)
(* on a drawn question qa, followed by the required text question qb.      *)
(***************************************************************************)
QuestionTypes ==
    {"text", "textarea", "email", "tel", "number", "date", "select", "radio",
     "checkbox", "file"}

ConsentLabels == {L_agreeTerms, L_CONSENT, L_Accept}
SignatureLabels == {L_Signature, L_Design, L_SIGN}
Labels == {S_label} \cup ConsentLabels \cup SignatureLabels

DrawnValidations ==
    {NoValidation,
     [hasMin |-> TRUE, min |-> 18, hasMax |-> FALSE, max |-> 0, hasPattern |-> FALSE],
     [hasMin |-> FALSE, min |-> 0, hasMax |-> FALSE, max |-> 0, hasPattern |-> TRUE]}

DrawnQuestions ==
    {Question("qa", type, label, required, options, validation, <<>>) :
        type \in QuestionTypes, label \in Labels, required \in {"true", "false", "unset"},
        options \in {<<>>, <<S_a, S_b>>}, validation \in DrawnValidations}

\* VUndef stands for a key the data does not have
DrawnValues ==
    {VUndef, VStr(S_empty), VStr(S_yes), VStr(S_17), VStr(S_18), VStr(S_mail),
     VNum(0), VBool(TRUE), VBool(FALSE), VArr(<<>>), VArr(<<S_a>>)}

DataOf(va, vb) ==
    [k \in (IF va = VUndef THEN {} ELSE {"qa"}) \cup (IF vb = VUndef THEN {} ELSE {"qb"}) |->
        IF k = "qa" THEN va ELSE vb]

InitValidation ==
    /\ form \in {[sections |->
                    <<Section("s1", <<q, Question("qb", "text", S_label, "true", <<>>,
                                                  NoValidation, <<>>)>>, <<>>)>>] :
                 q \in DrawnQuestions}
    /\ visibleQuestionIds \in SUBSET {"qa", "qb"}
    /\ parseData \in {DataOf(va, vb) : va \in DrawnValues, vb \in {VUndef, VStr(S_yes)}}
    /\ parseOut = [done |-> FALSE, issues |-> <<>>]
    /\ LogicIdle
    /\ VisibilityIdle
    /\ RendererIdle
    /\ ServerIdle

CallSafeParse ==
    /\ ~parseOut.done
    /\ parseOut' = [done |-> TRUE,
                    issues |-> safeParse(buildZodSchema(form, visibleQuestionIds), parseData)]
    /\ UNCHANGED <<form, visibleQuestionIds, parseData>>
    /\ UNCHANGED <<logicVars, visibilityVars, rendererVars, serverVars>>

NextValidation == CallSafeParse

SpecValidation == InitValidation /\ [][NextValidation]_vars

qa == form.sections[1].questions[1]
IssuePaths == {parseOut.issues[i].path : i \in 1..Len(parseOut.issues)}

\* C6: the schema buildZodSchema builds reports no issue for a question whose id
\* is not in the visible set, whatever its type, required flag, label and value.
C6_HiddenQuestionNeverFails ==
    parseOut.done => \A id \in IssuePaths : id \in visibleQuestionIds

\* a hidden required question whose own schema rejects the (missing or empty)
\* value has been parsed without an issue, while the visible qb failed
C6_Witness ==
    /\ parseOut.done
    /\ "qa" \notin visibleQuestionIds
    /\ "qb" \in visibleQuestionIds
    /\ qa.required = "true"
    /\ Answer(parseData, "qa") \in {VUndef, VStr(S_empty)}
    /\ IssuePaths = {"qb"}

\* C9: a visible checkbox without options whose label names consent passes iff
\* its value is exactly true, whatever its required flag.
C9_ConsentNeedsTrue ==
    (/\ parseOut.done
     /\ "qa" \in visibleQuestionIds
     /\ qa.type = "checkbox"
     /\ ~HasOptions(qa)
     /\ qa.label \in ConsentLabels)
    => (("qa" \notin IssuePaths) <=> (Answer(parseData, "qa") = VBool(TRUE)))

\* a consent checkbox whose required flag is unset has failed on false
C9_Witness ==
    /\ parseOut.done
    /\ "qa" \in visibleQuestionIds
    /\ qa.type = "checkbox"
    /\ ~HasOptions(qa)
    /\ qa.label = L_agreeTerms
    /\ qa.required = "unset"
    /\ Answer(parseData, "qa") = VBool(FALSE)
    /\ "qa" \in IssuePaths

\* C10: a visible text question whose label names a signature fails on '' and
\* passes on every non-empty string, whatever its required flag; a question of
\* another type with such a label is validated as it would be without it.
C10_SignatureNeedsNonEmpty ==
    (/\ parseOut.done
     /\ "qa" \in visibleQuestionIds
     /\ qa.label \in SignatureLabels)
    => /\ (qa.type = "text" /\ Answer(parseData, "qa") = VStr(S_empty)) => "qa" \in IssuePaths
       /\ (/\ qa.type = "text"
           /\ Answer(parseData, "qa").t = "string"
           /\ Answer(parseData, "qa") # VStr(S_empty)) => "qa" \notin IssuePaths
       /\ (qa.type # "text") =>
             (("qa" \in IssuePaths) <=>
                 FieldIssues(buildQuestionSchema([qa EXCEPT !.label = S_label]),
                             Answer(parseData, "qa")) # <<>>)

\* a text question labelled 'Design' whose required flag is unset has failed on ''
C10_Witness ==
    /\ parseOut.done
    /\ "qa" \in visibleQuestionIds
    /\ qa.type = "text"
    /\ qa.label = L_Design
    /\ qa.required = "unset"
    /\ Answer(parseData, "qa") = VStr(S_empty)
    /\ "qa" \in IssuePaths

\* C16: a visible email question fails on every non-empty value that is not an
\* email address, and a required one fails on '', whether or not the question
\* declares validation.pattern.
C16_EmailIsCheckedAgainstPattern ==
    (parseOut.done /\ "qa" \in visibleQuestionIds /\ qa.type = "email")
    => /\ (/\ Answer(parseData, "qa").t = "string"
           /\ Answer(parseData, "qa").s # S_empty
           /\ ~IsEmail(Answer(parseData, "qa").s)) => "qa" \in IssuePaths
       /\ (Truthy(qa.required) /\ Answer(parseData, "qa") = VStr(S_empty)) =>
             "qa" \in IssuePaths

\* C17: a visible checkbox with options passes on a list iff it is not required
\* or the list is non-empty, whatever its label says about consent.
C17_MultiSelectIsAList ==
    (/\ parseOut.done
     /\ "qa" \in visibleQuestionIds
     /\ qa.type = "checkbox"
     /\ HasOptions(qa)
     /\ Answer(parseData, "qa").t = "array")
    => (("qa" \notin IssuePaths) <=>
           (~Truthy(qa.required) \/ Len(Answer(parseData, "qa").a) > 0))

(***************************************************************************)
(* FormRenderer: the mounted component.                                    *)
(***************************************************************************)
\* defaultValues
defaultValues(f) ==
    [id \in QuestionIds(f) |-> getQuestionDefaultValue(FindQuestion(f, id))]

\* initialZodSchema: every question of the form counted as visible
initialZodSchema(f) == buildZodSchema(f, QuestionIds(f))

\* the useMemo visibleQuestionIds: the visible entries that are questions
visibleQuestionIdsOf(f, visibility) ==
    {id \in DOMAIN visibility : id \in QuestionIds(f) /\ visibility[id]}

\* prevVisibility.current[questionId] ?? true
WasVisible(prev, id) == IF id \in DOMAIN prev THEN prev[id] ELSE TRUE

\* C7 mutant: a hidden question is always cleared to the empty string
ClearedValue_AlwaysEmptyString(question) == VStr(S_empty)

\* the value the clear-on-hide effect passes to setValue
ClearedValue(question) ==
    IF question.type = "checkbox" /\ HasOptions(question) THEN VArr(<<>>)
    ELSE IF question.type = "checkbox" THEN VBool(FALSE)
    ELSE IF question.type = "number" THEN VNum(0)
    ELSE VStr(S_empty)

\* C27 mutant: every hidden question is reset, whether or not it was visible before
BecameHidden_EveryHidden(f, prev, visibility) ==
    {id \in DOMAIN visibility : ~visibility[id] /\ id \in QuestionIds(f)}

\* the ids the clear-on-hide effect calls setValue for
BecameHidden(f, prev, visibility) ==
    {id \in DOMAIN visibility :
        WasVisible(prev, id) /\ ~visibility[id] /\ id \in QuestionIds(f)}

\* the form values after the clear-on-hide effect
ClearOnHide(f, values, prev, visibility) ==
    [id \in (DOMAIN values) \cup BecameHidden(f, prev, visibility) |->
        IF id \in BecameHidden(f, prev, visibility)
        THEN ClearedValue(FindQuestion(f, id))
        ELSE values[id]]

\* JSON.parse(JSON.stringify(formData)): undefined members are dropped, NaN is null
JsonRoundTrip(data) ==
    [id \in {k \in DOMAIN data : data[k].t # "undefined"} |->
        IF data[id].t \in {"nan", "infinity"} THEN VNull ELSE data[id]]

\* the draft-load effect: setValue(key, draft[key]) for every key of the draft
RestoreDraft(values, draft) ==
    [id \in (DOMAIN values) \cup (DOMAIN draft) |->
        IF id \in DOMAIN draft THEN draft[id] ELSE values[id]]

\* C8 mutant: every answer is copied, not only those of visible questions
VisibleData_AllAnswers(visibleIds, data) == data

\* onSubmit: visibleData
VisibleData(visibleIds, data) ==
    [id \in {k \in visibleIds : Answer(data, k).t # "undefined"} |-> data[id]]

\* onSubmit: validationData, visibleData without the file questions
ValidationData(f, visibleData) ==
    [id \in {k \in DOMAIN visibleData :
                ~(k \in QuestionIds(f) /\ FindQuestion(f, k).type = "file")} |->
        visibleData[id]]

\* onSubmit: the questions whose files are appended as file_<id>
RequestFiles(f, inputs, visibility) ==
    {id \in inputs : id \in QuestionIds(f) /\ id \in DOMAIN visibility /\ visibility[id]}

\* what QuestionInput lets the user enter into a rendered question
TypedStrings == {S_empty, S_yes, S_skip}

InputValues(question, current) ==
    CASE question.type = "number" -> {VStr(S_empty), VStr(S_5)}
      [] question.type = "select" ->
            {VStr(S_empty)} \cup {VStr(question.options[i]) : i \in 1..Len(question.options)}
      [] question.type = "radio" ->
            {VStr(question.options[i]) : i \in 1..Len(question.options)}
      [] question.type = "checkbox" /\ HasOptions(question) ->
            {IF ArrayIncludes(current.a, question.options[i])
             THEN VArr(SelectSeq(current.a, LAMBDA x : x # question.options[i]))
             ELSE VArr(Append(current.a, question.options[i])) :
                i \in 1..Len(question.options)}
      [] question.type = "checkbox" -> {VBool(TRUE), VBool(FALSE)}
      [] question.type = "file" -> {}
      [] OTHER -> {VStr(str) : str \in TypedStrings}

MsgServer == "Failed to submit form"

ShowWhen(source, op, value) ==
    [condition |-> [questionId |-> source, operator |-> op, value |-> value], action |-> "show"]
HideWhen(source, op, value) ==
    [condition |-> [questionId |-> source, operator |-> op, value |-> value], action |-> "hide"]

\* Scenarios A and B: q2 is shown when q1 is 'yes'; section s2, with the
\* required q3, is hidden when q1 is 'skip'
FormAB ==
    [sections |->
        <<Section("s1",
                  <<Question("q1", "text", S_label, "false", <<>>, NoValidation, <<>>),
                    Question("q2", "number", S_label, "false", <<>>, NoValidation,
                             <<ShowWhen("q1", "equals", VStr(S_yes))>>)>>,
                  <<>>),
          Section("s2",
                  <<Question("q3", "text", S_label, "true", <<>>, NoValidation, <<>>)>>,
                  <<HideWhen("q1", "equals", VStr(S_skip))>>)>>]

\* a multi-select q1; section s2, shown when q1 contains 'a', holds a file
\* question, a single checkbox shown when q1 contains 'b', and a multi-select
FormFiles ==
    [sections |->
        <<Section("s1",
                  <<Question("q1", "checkbox", S_label, "false", <<S_a, S_b>>, NoValidation,
                             <<>>)>>,
                  <<>>),
          Section("s2",
                  <<Question("q4", "file", S_label, "true", <<>>, NoValidation, <<>>),
                    Question("q5", "checkbox", S_label, "false", <<>>, NoValidation,
                             <<ShowWhen("q1", "contains", VStr(S_b))>>),
                    Question("q6", "checkbox", S_label, "false", <<S_a>>, NoValidation,
                             <<>>)>>,
                  <<ShowWhen("q1", "contains", VStr(S_a))>>)>>]

RendererForms == {FormAB, FormFiles}

FreshMount ==
    /\ pageState' = "form"
    /\ mounted' = FALSE
    /\ effectsPending' = TRUE
    /\ formValues' = defaultValues(form)
    /\ prevVisibility' = EmptyMap
    /\ fileInputs' = {}
    /\ errors' = {}
    /\ isSubmitting' = FALSE
    /\ submitError' = "null"
    /\ request' = NoRequest
    /\ saveTimer' = NoTimer

Init ==
    /\ form \in RendererForms
    /\ pageState = "form"
    /\ mounted = FALSE
    /\ effectsPending = TRUE
    /\ formValues = defaultValues(form)
    /\ prevVisibility = EmptyMap
    /\ fileInputs = {}
    /\ errors = {}
    /\ isSubmitting = FALSE
    /\ submitError = "null"
    /\ request = NoRequest
    /\ localStorage = NoItem
    /\ saveTimer = NoTimer
    /\ LogicIdle
    /\ VisibilityIdle
    /\ ValidationIdle
    /\ ServerIdle

pureVars == <<logicRules, logicAnswers, logicOut, form, answers, visibilityOut, visibilityCalls,
              visibleQuestionIds, parseData, parseOut, serverVars>>

\* the effects of the first render, in the order the component declares them:
\* clear-on-hide, draft load, autosave
MountEffects ==
    /\ pageState = "form"
    /\ ~mounted
    /\ effectsPending
    /\ \E visibility \in {evaluateVisibility(form, formValues)} :
         \E cleared \in {ClearOnHide(form, formValues, prevVisibility, visibility)} :
            /\ formValues' = (IF localStorage.present
                              THEN RestoreDraft(cleared, localStorage.data)
                              ELSE cleared)
            /\ prevVisibility' = visibility
            /\ effectsPending' = (localStorage.present
                                    \/ BecameHidden(form, prevVisibility, visibility) # {})
    /\ saveTimer' = [armed |-> TRUE, data |-> formValues]
    /\ mounted' = TRUE
    /\ UNCHANGED <<pageState, fileInputs, errors, isSubmitting, submitError, request,
                   localStorage>>
    /\ UNCHANGED pureVars

\* a later render and its effects: the inputs of hidden questions are unmounted,
\* clear-on-hide runs, autosave re-arms its timer; a setValue of the
\* clear-on-hide effect causes one more render
RunEffects ==
    /\ pageState = "form"
    /\ mounted
    /\ effectsPending
    /\ \E visibility \in {evaluateVisibility(form, formValues)} :
         /\ fileInputs' = fileInputs \cap visibleQuestionIdsOf(form, visibility)
         /\ formValues' = ClearOnHide(form, formValues, prevVisibility, visibility)
         /\ prevVisibility' = visibility
         /\ effectsPending' = (BecameHidden(form, prevVisibility, visibility) # {})
    /\ saveTimer' = [armed |-> TRUE, data |-> formValues]
    /\ UNCHANGED <<pageState, mounted, errors, isSubmitting, submitError, request,
                   localStorage>>
    /\ UNCHANGED pureVars

\* the user changes the value of a rendered question
UserInput(id, value) ==
    /\ pageState = "form"
    /\ mounted
    /\ ~effectsPending
    /\ id \in visibleQuestionIdsOf(form, evaluateVisibility(form, formValues))
    /\ value \in InputValues(FindQuestion(form, id), formValues[id])
    /\ value # formValues[id]
    /\ formValues' = [formValues EXCEPT ![id] = value]
    /\ effectsPending' = TRUE
    /\ UNCHANGED <<pageState, mounted, prevVisibility, fileInputs, errors, isSubmitting, submitError,
                   request, localStorage, saveTimer>>
    /\ UNCHANGED pureVars

\* the user picks files in the input of a rendered file question
SelectFiles(id) ==
    /\ pageState = "form"
    /\ mounted
    /\ ~effectsPending
    /\ id \in visibleQuestionIdsOf(form, evaluateVisibility(form, formValues))
    /\ FindQuestion(form, id).type = "file"
    /\ id \notin fileInputs
    /\ fileInputs' = fileInputs \cup {id}
    /\ UNCHANGED <<pageState, mounted, effectsPending, formValues, prevVisibility, errors,
                   isSubmitting, submitError, request, localStorage, saveTimer>>
    /\ UNCHANGED pureVars

\* onSubmit(data), in a render whose visibility map is visibility: validate
\* the visible data, then post it
onSubmit(data, visibility) ==
      \E visibleData \in {VisibleData(visibleQuestionIdsOf(form, visibility), data)} :
        \E issues \in {safeParse(buildZodSchema(form, visibleQuestionIdsOf(form, visibility)),
                                 ValidationData(form, visibleData))} :
           IF issues # <<>>
           THEN /\ submitError' = issues[1].message
                /\ isSubmitting' = FALSE
                /\ request' = NoRequest
           ELSE /\ submitError' = "null"
                /\ isSubmitting' = TRUE
                /\ request' = [sent |-> TRUE,
                               answers |-> visibleData,
                               files |-> RequestFiles(form, fileInputs, visibility)]

\* handleSubmit(onSubmit): the resolver validates all values against
\* initialZodSchema and calls onSubmit only when it reports no error.  React
\* has run the effects of the last render before the submit event is handled.
Submit ==
    /\ pageState = "form"
    /\ mounted
    /\ ~effectsPending
    /\ ~isSubmitting
    /\ saveTimer' = [armed |-> TRUE, data |-> formValues]
    /\ \E resolverIssues \in {safeParse(initialZodSchema(form), formValues)} :
         IF resolverIssues # <<>>
         THEN /\ errors' = {resolverIssues[i].path : i \in 1..Len(resolverIssues)}
              /\ UNCHANGED <<isSubmitting, submitError, request>>
         ELSE /\ errors' = {}
              /\ onSubmit(safeParseData(initialZodSchema(form), formValues),
                          evaluateVisibility(form, formValues))
    /\ UNCHANGED <<pageState, mounted, effectsPending, formValues, prevVisibility,
                   fileInputs, localStorage>>
    /\ UNCHANGED pureVars

\* the response of the POST arrives: ok removes the draft and assigns the
\* redirect, anything else shows the error and re-enables the button
Response(ok) ==
    /\ pageState = "form"
    /\ request.sent
    /\ ~effectsPending
    /\ request' = NoRequest
    /\ IF ok
       THEN /\ localStorage' = NoItem
            /\ pageState' = "navigating"
            /\ UNCHANGED <<isSubmitting, submitError, saveTimer>>
       ELSE /\ submitError' = MsgServer
            /\ isSubmitting' = FALSE
            /\ saveTimer' = [armed |-> TRUE, data |-> formValues]
            /\ UNCHANGED <<localStorage, pageState>>
    /\ UNCHANGED <<mounted, effectsPending, formValues, prevVisibility, fileInputs, errors>>
    /\ UNCHANGED pureVars

\* the autosave timeout fires, 500 ms after the render that set it
AutosaveFire ==
    /\ pageState \in {"form", "navigating"}
    /\ saveTimer.armed
    /\ ~effectsPending
    /\ localStorage' = [present |-> TRUE, data |-> JsonRoundTrip(saveTimer.data)]
    /\ saveTimer' = NoTimer
    /\ UNCHANGED <<pageState, mounted, effectsPending, formValues, prevVisibility,
                   fileInputs, errors, isSubmitting, submitError, request>>
    /\ UNCHANGED pureVars

\* the document of the done page replaces the form page
Unload ==
    /\ pageState = "navigating"
    /\ pageState' = "gone"
    /\ saveTimer' = NoTimer
    /\ UNCHANGED <<mounted, effectsPending, formValues, prevVisibility, fileInputs, errors,
                   isSubmitting, submitError, request, localStorage>>
    /\ UNCHANGED pureVars

\* the form page is loaded again: a new mount over the same localStorage
LoadPage ==
    /\ mounted
    /\ FreshMount
    /\ UNCHANGED localStorage
    /\ UNCHANGED pureVars

Next ==
    \/ MountEffects
    \/ RunEffects
    \/ \E id \in QuestionIds(form) : \E value \in InputValues(FindQuestion(form, id), formValues[id]) :
          UserInput(id, value)
    \/ \E id \in QuestionIds(form) : SelectFiles(id)
    \/ Submit
    \/ \E ok \in BOOLEAN : Response(ok)
    \/ AutosaveFire
    \/ Unload
    \/ LoadPage

Spec == Init /\ [][Next]_vars

\* the visibility map of the stored answers, and what it makes of the questions
Visibility == evaluateVisibility(form, formValues)
VisibleNow == visibleQuestionIdsOf(form, Visibility)
HiddenNow == QuestionIds(form) \ VisibleNow

\* every currently visible question satisfies its own constraint
VisibleQuestionsValid ==
    safeParse(buildZodSchema(form, VisibleNow),
              ValidationData(form, VisibleData(VisibleNow, formValues))) = <<>>

\* C2: a submit attempt made while every visible question satisfies its own
\* constraint reaches the POST, whatever the hidden questions hold
C2_SubmitWithValidVisibleReachesPost ==
    [][(Submit /\ VisibleQuestionsValid) => request'.sent]_vars

\* the questions that were visible at the previous visibility computation and
\* are hidden in this one
TurnedHidden ==
    {id \in QuestionIds(form) :
        id \in DOMAIN prevVisibility /\ prevVisibility[id] /\ ~Visibility[id]}

\* C7: the render that computes a question's change from visible to hidden
\* stores the question's type default, and a submit is handled only after the
\* effects of the last render, with every hidden question at its type default
C7_HiddenQuestionIsResetBeforeSubmit ==
    [][/\ RunEffects =>
            \A id \in TurnedHidden :
                formValues'[id] = getQuestionDefaultValue(FindQuestion(form, id))
       /\ Submit =>
            /\ TurnedHidden = {}
            /\ \A id \in HiddenNow :
                   formValues[id] = getQuestionDefaultValue(FindQuestion(form, id))]_vars

\* a question just turned hidden: the render's data, which the autosave effect
\* holds, has its answer, and the store has the type default
C7_Witness ==
    /\ mounted
    /\ saveTimer.armed
    /\ \E id \in QuestionIds(form) :
          /\ id \in DOMAIN prevVisibility
          /\ ~prevVisibility[id]
          /\ saveTimer.data[id] # getQuestionDefaultValue(FindQuestion(form, id))
          /\ formValues[id] = getQuestionDefaultValue(FindQuestion(form, id))

\* C8: a posted submission has answers and files of visible questions only
C8_PostedSubmissionHasVisibleOnly ==
    [][(request'.sent /\ ~request.sent) =>
          /\ (DOMAIN request'.answers) \subseteq VisibleNow
          /\ request'.files \subseteq VisibleNow]_vars

\* a submission in flight that has a file, while a question of the form is hidden
C8_Witness ==
    /\ request.sent
    /\ request.files # {}
    /\ \E id \in QuestionIds(form) :
          /\ id \in DOMAIN prevVisibility
          /\ ~prevVisibility[id]
          /\ id \notin DOMAIN request.answers


(***************************************************************************)
(* SpecFirstError: the submit-time validation of onSubmit on forms of two  *)
(* sections whose three required questions have different messages.        *)
(***************************************************************************)
\* the ids of the three questions, in declared order
IdTriples ==
    {<<"qa", "qb", "qc">>, <<"qc", "qb", "qa">>, <<"2", "1", "qa">>, <<"1", "2", "10">>,
     <<"10", "2", "qa">>, <<"qa", "10", "1">>}

\* section s1 declares a date and a radio question, section s2 a tel question
ThreeQuestionForm(ids) ==
    [sections |->
        <<Section("s1",
                  <<Question(ids[1], "date", S_label, "true", <<>>, NoValidation, <<>>),
                    Question(ids[2], "radio", S_label, "true", <<S_yes, S_no>>, NoValidation,
                             <<>>)>>,
                  <<>>),
          Section("s2",
                  <<Question(ids[3], "tel", S_label, "true", <<>>, NoValidation, <<>>)>>,
                  <<>>)>>]

FirstErrorValues == {VStr(S_empty), VStr(S_yes), VStr(S_555)}

InitFirstError ==
    /\ \E ids \in IdTriples :
         /\ form = ThreeQuestionForm(ids)
         /\ visibleQuestionIds \in SUBSET {ids[1], ids[2], ids[3]}
         /\ parseData \in [{ids[1], ids[2], ids[3]} -> FirstErrorValues]
    /\ parseOut = [done |-> FALSE, issues |-> <<>>, firstError |-> "null"]
    /\ LogicIdle
    /\ VisibilityIdle
    /\ RendererIdle
    /\ ServerIdle

\* onSubmit from buildZodSchema to firstError, for the visible ids and data drawn
CallSubmitValidation ==
    /\ ~parseOut.done
    /\ \E issues \in {safeParse(buildZodSchema(form, visibleQuestionIds),
                               ValidationData(form, VisibleData(visibleQuestionIds,
                                                                parseData)))} :
         parseOut' = [done |-> TRUE, issues |-> issues,
                      firstError |-> IF issues = <<>> THEN "null" ELSE issues[1].message]
    /\ UNCHANGED <<form, visibleQuestionIds, parseData>>
    /\ UNCHANGED <<logicVars, visibilityVars, rendererVars, serverVars>>

NextFirstError == CallSubmitValidation

SpecFirstError == InitFirstError /\ [][NextFirstError]_vars

\* the issues of one question's own schema on its value in the data
OwnIssues(question) == FieldIssues(buildQuestionSchema(question), Answer(parseData, question.id))

\* the positions, in declared order, of the visible questions that fail
FailingPositions ==
    {i \in 1..Len(AllQuestions(form)) :
        /\ AllQuestions(form)[i].id \in visibleQuestionIds
        /\ OwnIssues(AllQuestions(form)[i]) # <<>>}

FirstFailing == AllQuestions(form)[CHOOSE i \in FailingPositions : \A j \in FailingPositions : i <= j]

NumberValidations ==
    {[hasMin |-> hasMin, min |-> min, hasMax |-> hasMax, max |-> 20, hasPattern |-> FALSE] :
        hasMin \in BOOLEAN, min \in {18, 0 - 10}, hasMax \in BOOLEAN}

NumberQuestions ==
    {Question("qa", "number", S_label, required, <<>>, validation, <<>>) :
        required \in {"true", "false", "unset"}, validation \in NumberValidations}

\* what a number input or a restored draft can hold; VUndef stands for a missing key
NumberValues ==
    {VUndef, VStr(S_empty), VStr(S_yes), VStr(S_17), VStr(S_18), VStr(S_21), VStr(S_minus5),
     VNum(0), VNum(18), VNum(20), VNum(21), VNum(0 - 5), VNum(0 - 11)}

InitNumber ==
    /\ form \in {[sections |->
                    <<Section("s1", <<q, Question("qb", "text", S_label, "true", <<>>,
                                                  NoValidation, <<>>)>>, <<>>)>>] :
                 q \in NumberQuestions}
    /\ visibleQuestionIds \in {{"qa"}, {"qa", "qb"}, {"qb"}}
    /\ parseData \in {DataOf(va, VStr(S_yes)) : va \in NumberValues}
    /\ parseOut = [done |-> FALSE, issues |-> <<>>]
    /\ LogicIdle
    /\ VisibilityIdle
    /\ RendererIdle
    /\ ServerIdle

SpecNumber == InitNumber /\ [][NextValidation]_vars

\* the value of qa is a number or a non-empty string that Number() converts
qaValue == Answer(parseData, "qa")
qaIsNumeric ==
    \/ qaValue.t = "number"
    \/ qaValue.t = "string" /\ qaValue.s # S_empty /\ ~isNaN(ToNumber(qaValue))
qaAtLeastMin == qa.validation.hasMin => ToNumber(qaValue).n >= qa.validation.min
qaAtMostMax == qa.validation.hasMax => ToNumber(qaValue).n <= qa.validation.max
qaMessages == {parseOut.issues[i].message : i \in {j \in 1..Len(parseOut.issues) :
                                                        parseOut.issues[j].path = "qa"}}

\* C14: a visible required number question passes on every present numeric
\* value within the configured min and max, 0 and negative values included.
C14_RequiredNumberOnlyNeedsAValue ==
    (/\ parseOut.done
     /\ "qa" \in visibleQuestionIds
     /\ qa.type = "number"
     /\ qa.required = "true"
     /\ qaIsNumeric
     /\ qaAtLeastMin
     /\ qaAtMostMax)
    => "qa" \notin IssuePaths

\* C15: a visible number question passes on a numeric value iff the value is
\* within the configured bounds; below min it fails with the minimum-value
\* message, above max with the maximum-value message.
C15_NumberPassesIffWithinBounds ==
    (/\ parseOut.done
     /\ "qa" \in visibleQuestionIds
     /\ qa.type = "number"
     /\ qaIsNumeric)
    => /\ ("qa" \notin IssuePaths) <=> (qaAtLeastMin /\ qaAtMostMax)
       /\ ~qaAtLeastMin => MsgMinimum \in qaMessages
       /\ ~qaAtMostMax => MsgMaximum \in qaMessages

(***************************************************************************)
(* SpecSourcePosition: evaluateVisibility on forms that place the source   *)
(* q1 of the subject's rule before, beside or after the subject q2, and    *)
(* that hide q1 or its section unless q0 is answered 'yes'.                *)
(***************************************************************************)
Placements == {"earlier", "same", "later"}
Gates == {"none", "question", "section"}
GateRule == <<RuleOn("q0", "equals", VStr(S_yes), "show")>>

PositionForm(placement, gate, op) ==
    LET q0 == Question("q0", "text", S_label, "false", <<>>, NoValidation, <<>>)
        q1 == Question("q1", "text", S_label, "false", <<>>, NoValidation,
                       IF gate = "question" THEN GateRule ELSE <<>>)
        q2 == Question("q2", "text", S_label, "false", <<>>, NoValidation,
                       <<RuleOn("q1", op, GhostRuleValue(op), "show")>>)
        s0 == Section("s0", <<q0>>, <<>>)
        sourceSection == Section("s1", <<q1>>, IF gate = "section" THEN GateRule ELSE <<>>)
    IN  [sections |->
            CASE placement = "earlier" -> <<s0, sourceSection, Section("s2", <<q2>>, <<>>)>>
              [] placement = "later" -> <<s0, Section("s2", <<q2>>, <<>>), sourceSection>>
              [] OTHER -> <<s0, Section("s2", <<q1, q2>>, <<>>)>>]

\* a source in the subject's own section is hidden by its own rule only
PositionChoices == (Placements \X Gates) \ {<<"same", "section">>}

PositionAnswers ==
    {[k \in {"q1"} \cup (IF v0 = VUndef THEN {} ELSE {"q0"}) |-> IF k = "q1" THEN v1 ELSE v0] :
        v1 \in {VStr(S_empty), VStr(S_yes), VStr(S_7)}, v0 \in {VUndef, VStr(S_yes)}}

SubjectOperator == FindQuestion(form, "q2").logic[1].condition.operator

InitSourcePosition ==
    /\ form \in {PositionForm("earlier", "none", op) : op \in Operators}
    /\ answers = EmptyMap
    /\ visibilityOut = [done |-> FALSE, map |-> EmptyMap]
    /\ visibilityCalls = <<>>
    /\ LogicIdle
    /\ ValidationIdle
    /\ RendererIdle
    /\ ServerIdle

EvaluateAt(choice, formData) ==
    /\ Len(visibilityCalls) < MaxEvaluations
    /\ form' = PositionForm(choice[1], choice[2], SubjectOperator)
    /\ answers' = formData
    /\ visibilityOut' = [done |-> TRUE, map |-> evaluateVisibility(form', formData)]
    /\ visibilityCalls' =
         Append(visibilityCalls,
                [choice |-> choice, answers |-> formData, map |-> visibilityOut'.map])
    /\ UNCHANGED <<logicVars, validationVars, rendererVars, serverVars>>

NextSourcePosition ==
    \E choice \in PositionChoices : \E formData \in PositionAnswers :
        EvaluateAt(choice, formData)

SpecSourcePosition == InitSourcePosition /\ [][NextSourcePosition]_vars

\* C21: two evaluations with the same stored answer of the source q1 give the
\* subject's rule the same result (q2 has that rule alone, in a section without
\* rules, so its entry is the result), wherever q1 is placed and whether q1 or
\* its section is visible or hidden.
C21_ConditionReadsStoredAnswerOnly ==
    \A i, j \in 1..Len(visibilityCalls) :
        (Answer(visibilityCalls[i].answers, "q1") = Answer(visibilityCalls[j].answers, "q1"))
            => (visibilityCalls[i].map["q2"] <=> visibilityCalls[j].map["q2"])

\* q1 = 'yes' read once from a visible source in an earlier section and once from
\* a source in a later, hidden section; the rule holds in both
C21_Witness ==
    /\ Len(visibilityCalls) = 2
    /\ SubjectOperator = "equals"
    /\ visibilityCalls[1].choice = <<"earlier", "none">>
    /\ visibilityCalls[2].choice = <<"later", "section">>
    /\ Answer(visibilityCalls[1].answers, "q1") = VStr(S_yes)
    /\ Answer(visibilityCalls[2].answers, "q1") = VStr(S_yes)
    /\ visibilityCalls[1].map["q1"]
    /\ ~visibilityCalls[2].map["s1"]
    /\ ~visibilityCalls[2].map["q1"]
    /\ visibilityCalls[1].map["q2"]
    /\ visibilityCalls[2].map["q2"]

(***************************************************************************)
(* SpecSave: POST /api/admin/forms/save, several requests in flight.  A    *)
(* handler runs from one await to the next without interruption; the       *)
(* steps are: the checks after request.json(), the continuation of         *)
(* getFormBySlug, and the continuation of fs.writeFile in saveForm.        *)
(***************************************************************************)
S_b1 == <<"b", "-", "1">>
S_A == <<"A">>

\* /^[a-z0-9-]+$/.test(slug)
SlugTest(slug) ==
    /\ Len(slug) > 0
    /\ \A i \in 1..Len(slug) :
          \/ \E k \in 1..26 : LowerCase[k] = slug[i]
          \/ slug[i] \in DigitChars
          \/ slug[i] = "-"

SaveRequestIds == {"r1", "r2", "r3"}

SaveBody(slug, id, hasTitle, tokenOk) ==
    [slug |-> slug, id |-> id, hasTitle |-> hasTitle, tokenOk |-> tokenOk]

\* the requests a client sends: well-formed saves of the forms f1 and f2, and
\* saves without slug, with a malformed slug, without title, with a wrong token
SaveBodies ==
    {SaveBody(slug, id, TRUE, TRUE) : slug \in {S_empty, S_a, S_b1, S_A}, id \in {"f1", "f2"}}
        \cup {SaveBody(S_a, "f1", FALSE, TRUE), SaveBody(S_a, "f2", TRUE, FALSE)}

NoSaveRequest == [pc |-> "idle", body |-> SaveBody(S_empty, "none", FALSE, FALSE), status |-> 0]

\* getFormBySlug(slug): the form stored in <slug>.json, or null
getFormBySlug(stored, slug) == IF slug \in DOMAIN stored THEN stored[slug] ELSE "null"

InitSave ==
    /\ storedForms = EmptyMap
    /\ saveRequests = [r \in SaveRequestIds |-> NoSaveRequest]
    /\ submitRequest = [pc |-> "none"]
    /\ uploadDir = EmptyMap
    /\ email = [pc |-> "none"]
    /\ clock = 0
    /\ cleanup = [pc |-> "none"]
    /\ form = [sections |-> <<>>]
    /\ LogicIdle
    /\ VisibilityIdle
    /\ ValidationIdle
    /\ RendererIdle

saveOtherVars == <<submitRequest, uploadDir, email, clock, cleanup, form, logicVars,
                   visibilityVars, validationVars, rendererVars>>

\* the request arrives: token, required fields, slug format; then getFormBySlug is awaited
SaveReceive(r, body) ==
    /\ saveRequests[r].pc = "idle"
    /\ saveRequests' = [saveRequests EXCEPT ![r] =
          IF ~body.tokenOk THEN [pc |-> "done", body |-> body, status |-> 401]
          ELSE IF body.slug = S_empty \/ ~body.hasTitle
               THEN [pc |-> "done", body |-> body, status |-> 400]
          ELSE IF ~SlugTest(body.slug) THEN [pc |-> "done", body |-> body, status |-> 400]
          ELSE [pc |-> "lookup", body |-> body, status |-> 0]]
    /\ UNCHANGED storedForms
    /\ UNCHANGED saveOtherVars

\* the file is read; a form of another id under the slug ends the request, otherwise
\* saveForm is entered and awaits mkdir and writeFile
SaveLookup(r) ==
    /\ saveRequests[r].pc = "lookup"
    /\ \E existingForm \in {getFormBySlug(storedForms, saveRequests[r].body.slug)} :
          saveRequests' = [saveRequests EXCEPT ![r] =
              IF existingForm # "null" /\ existingForm # saveRequests[r].body.id
              THEN [@ EXCEPT !.pc = "done", !.status = 400]
              ELSE [@ EXCEPT !.pc = "write"]]
    /\ UNCHANGED storedForms
    /\ UNCHANGED saveOtherVars

\* fs.writeFile(<slug>.json) completes and the handler answers 200
SaveWrite(r) ==
    /\ saveRequests[r].pc = "write"
    /\ storedForms' = Put(storedForms, saveRequests[r].body.slug, saveRequests[r].body.id)
    /\ saveRequests' = [saveRequests EXCEPT ![r] = [@ EXCEPT !.pc = "done", !.status = 200]]
    /\ UNCHANGED saveOtherVars

NextSave ==
    \E r \in SaveRequestIds :
        \/ \E body \in SaveBodies : SaveReceive(r, body)
        \/ SaveLookup(r)
        \/ SaveWrite(r)

SpecSave == InitSave /\ [][NextSave]_vars

\* C22: every stored form has a slug matching [a-z0-9-]+, and no step replaces the
\* form stored under a slug by a form of another id.
C22_StoredFormIsNeverReplacedByAnotherId ==
    [][/\ \A slug \in DOMAIN storedForms' : SlugTest(slug)
       /\ \A slug \in DOMAIN storedForms :
             getFormBySlug(storedForms', slug) = storedForms[slug]]_vars

(***************************************************************************)
(* SpecDefaults: the rules of a subject evaluated on the form data of the  *)
(* first render, in which the source q1 holds the default of its type.     *)
(***************************************************************************)
\* the source question, of every type and with and without options
SourceQuestions ==
    {Question(SourceId, type, S_label, "false", options, NoValidation, <<>>) :
        type \in QuestionTypes, options \in {<<>>, <<S_a, S_b>>}}

SourceForm(question) == [sections |-> <<Section("s1", <<question>>, <<>>)>>]

InitDefaults ==
    /\ form \in {SourceForm(question) : question \in SourceQuestions}
    /\ logicRules \in RuleLists
    /\ logicAnswers = defaultValues(form)
    /\ logicOut = LogicNotRun
    /\ VisibilityIdle
    /\ ValidationIdle
    /\ RendererIdle
    /\ ServerIdle

SpecDefaults == InitDefaults /\ [][NextLogic]_vars

\* C23: while the source holds the value the renderer initialised it to, every
\* condition on it is false, for every operator and comparison value.
C23_DefaultValueSatisfiesNoRule ==
    logicOut.done => \A i \in 1..Len(logicRules) : ~logicOut.conditions[i]

\* C30 (SpecValidation): a visible question that is not required, is no consent
\* checkbox and no signature field passes on the default value of its type.
C30_OptionalQuestionPassesOnItsDefault ==
    (/\ parseOut.done
     /\ "qa" \in visibleQuestionIds
     /\ qa.required # "true"
     /\ ~isConsentQuestion(qa)
     /\ ~isSignatureQuestion(qa)
     /\ Answer(parseData, "qa") = getQuestionDefaultValue(qa))
    => "qa" \notin IssuePaths

(***************************************************************************)
(* SpecSubmit: POST /api/submit/<slug> with uploaded files.  The handler   *)
(* runs without interruption up to `await storeFiles`; storeFiles awaits   *)
(* mkdir and then one writeFile per file.                                  *)
(***************************************************************************)
MAX_FILE_SIZE == 25 * 1024 * 1024
MAX_TOTAL_SIZE == 100 * 1024 * 1024
ALLOWED_FILE_TYPES == {"image/jpeg", "image/jpg", "image/png", "application/pdf", "video/mp4"}
ALLOWED_EXTENSIONS ==
    {<<".", "j", "p", "g">>, <<".", "j", "p", "e", "g">>, <<".", "p", "n", "g">>,
     <<".", "p", "d", "f">>, <<".", "m", "p", "4">>}

\* an uploaded File under the key file_<questionId>: path.extname(file.name),
\* file.type and file.size
UploadedFile(questionId, extname, type, size) ==
    [questionId |-> questionId, extname |-> extname, type |-> type, size |-> size]

\* C24 mutant: the size of a single file is not looked at
validateFile_SizeUnchecked(file) ==
    /\ ToLowerCase(file.extname) \in ALLOWED_EXTENSIONS
    /\ file.type \in ALLOWED_FILE_TYPES

validateFile(file) ==
    /\ ToLowerCase(file.extname) \in ALLOWED_EXTENSIONS
    /\ file.type \in ALLOWED_FILE_TYPES
    /\ file.size <= MAX_FILE_SIZE

RECURSIVE SumSizes(_)
SumSizes(files) == IF files = <<>> THEN 0 ELSE files[1].size + SumSizes(Tail(files))

validateTotalSize(files) == SumSizes(files) <= MAX_TOTAL_SIZE

\* the form the slug names: a single-file question, a multiple-file question and a
\* text question
SubmitForm ==
    [sections |->
        <<Section("s1",
                  <<Question("qf", "file", S_label, "false", <<>>, NoValidation, <<>>),
                    Question("qm", "file", S_label, "false", <<>>, NoValidation, <<>>)
                        @@ [multiple |-> TRUE],
                    Question("qt", "text", S_label, "false", <<>>, NoValidation, <<>>)>>,
                  <<>>)>>]
\* question.multiple, an optional field
Multiple(question) == "multiple" \in DOMAIN question /\ question.multiple

FilesOf(entries, questionId) == SelectSeq(entries, LAMBDA f : f.questionId = questionId)

\* the loop over Object.entries(filesByQuestion): no question fails its checks
FilesValid(f, entries) ==
    \A i \in 1..Len(entries) :
        /\ entries[i].questionId \in QuestionIds(f)
        /\ FindQuestion(f, entries[i].questionId).type = "file"
        /\ \/ Multiple(FindQuestion(f, entries[i].questionId))
           \/ Len(FilesOf(entries, entries[i].questionId)) <= 1
        /\ validateFile(entries[i])

\* extension, MIME type and size of the files drawn: a small and a largest allowed
\* PDF, and one file for each way validateFile rejects
FileKinds ==
    {<<<<".", "P", "D", "F">>, "application/pdf", 1>>,
     <<<<".", "p", "d", "f">>, "application/pdf", MAX_FILE_SIZE>>,
     <<<<".", "e", "x", "e">>, "application/pdf", 1>>,
     <<<<".", "p", "d", "f">>, "text/plain", 1>>,
     <<<<".", "p", "d", "f">>, "application/pdf", MAX_FILE_SIZE + 1>>}

DrawnFiles ==
    {UploadedFile(questionId, kind[1], kind[2], kind[3]) :
        questionId \in {"qf", "qm", "qt", "zz"}, kind \in FileKinds}

LargestFile == UploadedFile("qm", <<".", "p", "d", "f">>, "application/pdf", MAX_FILE_SIZE)

\* multipart bodies: up to MaxFiles arbitrary files, and bodies of valid files of
\* the largest size that reach and pass the total
SubmitEntries ==
    UNION {[1..len -> DrawnFiles] : len \in 0..MaxFiles}
        \cup {[i \in 1..len |-> LargestFile] : len \in (MaxFiles + 2)..(MaxFiles + 3)}

NoSubmitRequest ==
    [pc |-> "idle", formFound |-> FALSE, answersOk |-> FALSE, entries |-> <<>>,
     status |-> 0, submissionId |-> "none", written |-> 0]

InitSubmit ==
    /\ form = SubmitForm
    /\ submitRequest = NoSubmitRequest
    /\ uploadDir = EmptyMap
    /\ storedForms = EmptyMap
    /\ saveRequests = EmptyMap
    /\ email = [pc |-> "none"]
    /\ clock = 0
    /\ cleanup = [pc |-> "none"]
    /\ LogicIdle
    /\ VisibilityIdle
    /\ ValidationIdle
    /\ RendererIdle

submitOtherVars == <<form, storedForms, saveRequests, email, clock, cleanup, logicVars,
                     visibilityVars, validationVars, rendererVars>>

\* the handler up to `await storeFiles(allFiles, submissionId)`
SubmitHandle(formFound, answersOk, entries) ==
    /\ submitRequest.pc = "idle"
    /\ submitRequest' =
         [NoSubmitRequest EXCEPT
            !.formFound = formFound, !.answersOk = answersOk, !.entries = entries,
            !.pc = IF formFound /\ answersOk /\ FilesValid(form, entries)
                      /\ validateTotalSize(entries) /\ Len(entries) > 0
                   THEN "mkdir" ELSE "done",
            !.status = IF ~formFound THEN 404
                       ELSE IF ~answersOk THEN 400
                       ELSE IF ~FilesValid(form, entries) THEN 400
                       ELSE IF ~validateTotalSize(entries) THEN 400
                       ELSE IF Len(entries) > 0 THEN 0
                       ELSE 200,
            !.submissionId = "sub1"]
    /\ UNCHANGED uploadDir
    /\ UNCHANGED submitOtherVars

\* storeFiles: fs.mkdir(requestDir, { recursive: true })
StoreMkdir ==
    /\ submitRequest.pc = "mkdir"
    /\ uploadDir' = Put(uploadDir, submitRequest.submissionId, [files |-> 0, mtime |-> clock])
    /\ submitRequest' = [submitRequest EXCEPT !.pc = "write"]
    /\ UNCHANGED submitOtherVars

\* storeFiles: fs.writeFile of the next file; after the last one the handler goes on
\* to the report, the email and the response
StoreWrite ==
    /\ submitRequest.pc = "write"
    /\ submitRequest.written < Len(submitRequest.entries)
    /\ uploadDir' = [uploadDir EXCEPT ![submitRequest.submissionId].files = @ + 1,
                                      ![submitRequest.submissionId].mtime = clock]
    /\ submitRequest' =
         [submitRequest EXCEPT
            !.written = @ + 1,
            !.pc = IF submitRequest.written + 1 = Len(submitRequest.entries)
                   THEN "respond" ELSE "write"]
    /\ UNCHANGED submitOtherVars

SubmitRespond ==
    /\ submitRequest.pc = "respond"
    /\ submitRequest' = [submitRequest EXCEPT !.pc = "done", !.status = 200]
    /\ UNCHANGED uploadDir
    /\ UNCHANGED submitOtherVars

NextSubmit ==
    \/ /\ submitRequest.pc = "idle"
       /\ \E formFound \in BOOLEAN : \E answersOk \in BOOLEAN : \E entries \in SubmitEntries :
             SubmitHandle(formFound, answersOk, entries)
    \/ StoreMkdir
    \/ StoreWrite
    \/ SubmitRespond

SpecSubmit == InitSubmit /\ [][NextSubmit]_vars

\* the defects of a request's files, read off the request
FileOfUnknownOrNonFileQuestion(entries) ==
    \E i \in 1..Len(entries) :
        \/ entries[i].questionId \notin QuestionIds(form)
        \/ FindQuestion(form, entries[i].questionId).type # "file"
SeveralFilesForSingleQuestion(entries) ==
    Cardinality({i \in 1..Len(entries) : entries[i].questionId = "qf"}) > 1
DisallowedType(entries) ==
    \E i \in 1..Len(entries) :
        \/ ToLowerCase(entries[i].extname) \notin ALLOWED_EXTENSIONS
        \/ entries[i].type \notin ALLOWED_FILE_TYPES
FileTooLarge(entries) == \E i \in 1..Len(entries) : entries[i].size > MAX_FILE_SIZE
TotalTooLarge(entries) == SumSizes(entries) > MAX_TOTAL_SIZE
Defective(entries) ==
    \/ FileOfUnknownOrNonFileQuestion(entries)
    \/ SeveralFilesForSingleQuestion(entries)
    \/ DisallowedType(entries)
    \/ FileTooLarge(entries)
    \/ TotalTooLarge(entries)

MAX_ATTACHMENT_SIZE == 20 * 1024 * 1024
MB == 1024 * 1024

\* C25 mutant: a file is attached when it alone is within the limit
Attachable_FileSizeOnly(totalSize, fileSize) == fileSize <= MAX_ATTACHMENT_SIZE

\* totalSize + fileSize <= MAX_ATTACHMENT_SIZE
Attachable(totalSize, fileSize) == totalSize + fileSize <= MAX_ATTACHMENT_SIZE

\* FileMetadata of a stored upload: its size, and whether fs.readFile(path) succeeds
StoredUploads ==
    {[size |-> size, readable |-> readable] :
        size \in {1, 10 * MB, 19 * MB, MAX_FILE_SIZE}, readable \in BOOLEAN}

\* excelBuffer.length: the empty buffer of a failed report, a report of 1MB, and a
\* report that is over the limit by itself
ExcelSizes == {0, MB, MAX_ATTACHMENT_SIZE + 1}

InitEmail ==
    /\ email \in {[pc |-> "loop", excel |-> excel, allFiles |-> files, done |-> 0,
                    totalSize |-> excel, attachments |-> <<>>, downloadLinks |-> <<>>] :
                   excel \in ExcelSizes,
                   files \in UNION {[1..len -> StoredUploads] : len \in 0..MaxUploads}}
    /\ form = [sections |-> <<>>]
    /\ storedForms = EmptyMap
    /\ saveRequests = EmptyMap
    /\ submitRequest = [pc |-> "none"]
    /\ uploadDir = EmptyMap
    /\ clock = 0
    /\ cleanup = [pc |-> "none"]
    /\ LogicIdle
    /\ VisibilityIdle
    /\ ValidationIdle
    /\ RendererIdle

emailOtherVars == <<form, storedForms, saveRequests, submitRequest, uploadDir, clock, cleanup,
                    logicVars, visibilityVars, validationVars, rendererVars>>

\* one iteration of `for (const fileMeta of allFiles)`; attachments and
\* downloadLinks hold the positions of the files pushed to them
EmailNextFile ==
    /\ email.pc = "loop"
    /\ email.done < Len(email.allFiles)
    /\ \E fileMeta \in {email.allFiles[email.done + 1]} :
          email' =
            IF Attachable(email.totalSize, fileMeta.size) /\ fileMeta.readable
            THEN [email EXCEPT !.done = @ + 1,
                               !.attachments = Append(@, email.done + 1),
                               !.totalSize = @ + fileMeta.size]
            ELSE [email EXCEPT !.done = @ + 1,
                               !.downloadLinks = Append(@, email.done + 1)]
    /\ UNCHANGED emailOtherVars

\* the loop is over: the message is built and handed to transporter.sendMail
EmailSend ==
    /\ email.pc = "loop"
    /\ email.done = Len(email.allFiles)
    /\ email' = [email EXCEPT !.pc = "sent"]
    /\ UNCHANGED emailOtherVars

NextEmail == EmailNextFile \/ EmailSend

SpecEmail == InitEmail /\ [][NextEmail]_vars

Positions(seq) == {seq[i] : i \in 1..Len(seq)}
RECURSIVE SizeOfUploads(_)
SizeOfUploads(positions) ==
    IF positions = {} THEN 0
    ELSE LET k == CHOOSE k \in positions : TRUE
         IN  email.allFiles[k].size + SizeOfUploads(positions \ {k})

\* C25: every upload the loop has passed is in exactly one of attachments and
\* downloadLinks, once; an upload is attached only if the report, the uploads
\* attached before it and the upload itself are within 20MB together; and when the
\* message is sent every upload is in one of the two.
C25_EachUploadAttachedOrLinked ==
    /\ Positions(email.attachments) \cup Positions(email.downloadLinks) = 1..email.done
    /\ Positions(email.attachments) \cap Positions(email.downloadLinks) = {}
    /\ Len(email.attachments) + Len(email.downloadLinks) = email.done
    /\ \A k \in Positions(email.attachments) :
          email.excel + SizeOfUploads({j \in Positions(email.attachments) : j <= k})
              <= MAX_ATTACHMENT_SIZE
    /\ (email.pc = "sent") => (email.done = Len(email.allFiles))

\* the report and the first upload fill the 20MB exactly, the second upload does
\* not fit any more and is linked, the third could not be read and is linked
C25_Witness ==
    /\ email.pc = "sent"
    /\ email.excel = MB
    /\ Len(email.allFiles) = 3
    /\ email.allFiles[1].size = 19 * MB
    /\ email.allFiles[2].readable
    /\ ~email.allFiles[3].readable
    /\ email.attachments = <<1>>
    /\ email.downloadLinks = <<2, 3>>

(***************************************************************************)
(* SpecCleanup: submissions that store a folder under tmp/uploads and      *)
(* start cleanupExpiredFiles, which is started nowhere else.  Time is in   *)
(* days.  A submission is taken only while no cleanup is running, so one   *)
(* cleanup is modelled at a time.                                          *)
(***************************************************************************)
RETENTION_DAYS == 7

SubmissionId(n) == <<"sub", n>>

InitCleanup ==
    /\ uploadDir = EmptyMap
    /\ clock = 0
    /\ cleanup = [pc |-> "none", now |-> 0, entries |-> {}, deleted |-> 0]
    /\ submitRequest = [pc |-> "none", submitted |-> 0]
    /\ form = [sections |-> <<>>]
    /\ storedForms = EmptyMap
    /\ saveRequests = EmptyMap
    /\ email = [pc |-> "none"]
    /\ LogicIdle
    /\ VisibilityIdle
    /\ ValidationIdle
    /\ RendererIdle

cleanupOtherVars == <<form, storedForms, saveRequests, email, logicVars, visibilityVars,
                      validationVars, rendererVars>>

\* a day passes
Tick ==
    /\ clock < MaxDay
    /\ clock' = clock + 1
    /\ UNCHANGED <<uploadDir, cleanup, submitRequest>>
    /\ UNCHANGED cleanupOtherVars

\* a submission is accepted: storeFiles creates its folder when it has files, and
\* the handler calls cleanupExpiredFiles() without awaiting it
SubmissionAccepted(hasFiles) ==
    /\ cleanup.pc = "none"
    /\ submitRequest.submitted < MaxSubmissions
    /\ submitRequest' = [submitRequest EXCEPT !.submitted = @ + 1]
    /\ uploadDir' = (IF hasFiles
                     THEN Put(uploadDir, SubmissionId(submitRequest.submitted + 1),
                              [files |-> 1, mtime |-> clock])
                     ELSE uploadDir)
    /\ cleanup' = [cleanup EXCEPT !.pc = "readdir"]
    /\ UNCHANGED clock
    /\ UNCHANGED cleanupOtherVars

\* const entries = await fs.readdir(uploadDir, ...); const now = Date.now()
CleanupReaddir ==
    /\ cleanup.pc = "readdir"
    /\ cleanup' = [cleanup EXCEPT !.pc = "loop", !.now = clock, !.entries = DOMAIN uploadDir]
    /\ UNCHANGED <<uploadDir, clock, submitRequest>>
    /\ UNCHANGED cleanupOtherVars

\* age > RETENTION_MS
Expired(now, mtime) == now - mtime > RETENTION_DAYS

\* one iteration of the loop: fs.stat of the folder, and fs.rm when it is expired
CleanupEntry(entry) ==
    /\ cleanup.pc = "loop"
    /\ entry \in cleanup.entries
    /\ \E expired \in {Expired(cleanup.now, uploadDir[entry].mtime)} :
          /\ uploadDir' = (IF expired
                           THEN [k \in (DOMAIN uploadDir) \ {entry} |-> uploadDir[k]]
                           ELSE uploadDir)
          /\ cleanup' = [cleanup EXCEPT !.entries = @ \ {entry},
                                        !.deleted = IF expired THEN @ + 1 ELSE @]
    /\ UNCHANGED <<clock, submitRequest>>
    /\ UNCHANGED cleanupOtherVars

\* return { deleted, errors }
CleanupReturn ==
    /\ cleanup.pc = "loop"
    /\ cleanup.entries = {}
    /\ cleanup' = [cleanup EXCEPT !.pc = "none", !.deleted = 0]
    /\ UNCHANGED <<uploadDir, clock, submitRequest>>
    /\ UNCHANGED cleanupOtherVars

CleanupStep ==
    \/ CleanupReaddir
    \/ \E entry \in DOMAIN uploadDir : CleanupEntry(entry)
    \/ CleanupReturn

NextCleanup ==
    \/ Tick
    \/ \E hasFiles \in BOOLEAN : SubmissionAccepted(hasFiles)
    \/ CleanupStep

\* time passes and a cleanup that was started runs to its end; nothing makes a
\* submission arrive
SpecCleanup == InitCleanup /\ [][NextCleanup]_vars /\ WF_vars(Tick) /\ WF_vars(CleanupStep)

Folders == {SubmissionId(n) : n \in 1..(MaxSubmissions + 1)}

\* C26: every folder older than 7 days is eventually deleted.
C26_ExpiredFolderIsEventuallyDeleted ==
    \A id \in Folders :
        [](id \in DOMAIN uploadDir /\ Expired(clock, uploadDir[id].mtime)
              => <>(id \notin DOMAIN uploadDir))

\* no step deletes a folder that is 7 days old or younger
CleanupSparesYoungFolders ==
    [][\A id \in (DOMAIN uploadDir) \ (DOMAIN uploadDir') :
          Expired(clock, uploadDir[id].mtime)]_vars

(***************************************************************************)
(* SpecResetLoop: the renderer's visibility memo and clear-on-hide effect  *)
(* on forms whose rules refer to their own subject and to each other.      *)
(* visibilityCalls records the renders since the last change of an answer  *)
(* by the user: the ids the clear-on-hide effect called setValue for, and  *)
(* those among them whose value it changed.                                *)
(***************************************************************************)
TextQuestion(id, logic) == Question(id, "text", S_label, "false", <<>>, NoValidation, logic)

\* q1 hides itself
SelfForm ==
    [sections |->
        <<Section("s1", <<TextQuestion("q1", <<HideWhen("q1", "equals", VStr(S_yes))>>)>>,
                  <<>>)>>]

\* q1 and q2 hide each other
MutualForm ==
    [sections |->
        <<Section("s1",
                  <<TextQuestion("q1", <<HideWhen("q2", "equals", VStr(S_yes))>>),
                    TextQuestion("q2", <<HideWhen("q1", "equals", VStr(S_yes))>>)>>,
                  <<>>)>>]

\* q1 is shown by q3, q3 is shown by q1 and hidden by q2, q2 hides itself
RingForm ==
    [sections |->
        <<Section("s1",
                  <<TextQuestion("q1", <<ShowWhen("q3", "equals", VStr(S_skip))>>),
                    TextQuestion("q2", <<HideWhen("q2", "equals", VStr(S_yes))>>),
                    TextQuestion("q3", <<ShowWhen("q1", "equals", VStr(S_yes)),
                                         HideWhen("q2", "equals", VStr(S_yes))>>)>>,
                  <<>>)>>]

LoopForms == {SelfForm, MutualForm, RingForm, FormAB}

\* the drafts localStorage can hold for a form: none, or a value for every question
Drafts(f) ==
    {NoItem} \cup {[present |-> TRUE, data |-> data] :
                      data \in [QuestionIds(f) -> {VStr(str) : str \in TypedStrings}]}

InitResetLoop ==
    /\ form \in LoopForms
    /\ localStorage \in Drafts(form)
    /\ formValues = defaultValues(form)
    /\ prevVisibility = EmptyMap
    /\ pageState = "form"
    /\ mounted = FALSE
    /\ effectsPending = TRUE
    /\ visibilityCalls = <<>>
    /\ fileInputs = {}
    /\ errors = {}
    /\ isSubmitting = FALSE
    /\ submitError = "null"
    /\ request = NoRequest
    /\ saveTimer = NoTimer
    /\ answers = EmptyMap
    /\ visibilityOut = [done |-> FALSE]
    /\ LogicIdle
    /\ ValidationIdle
    /\ ServerIdle

loopOtherVars == <<form, localStorage, pageState, fileInputs, errors, isSubmitting, submitError,
                   request, saveTimer, answers, visibilityOut, logicVars, validationVars,
                   serverVars>>

\* the ids among those the effect resets whose value the reset changes
ChangedBy(f, values, hidden) ==
    {id \in hidden : Answer(values, id) # ClearedValue(FindQuestion(f, id))}

\* the first render's effects: clear-on-hide, then the draft-load effect
LoopMount ==
    /\ ~mounted
    /\ \E visibility \in {evaluateVisibility(form, formValues)} :
         \E cleared \in {ClearOnHide(form, formValues, prevVisibility, visibility)} :
            /\ formValues' = (IF localStorage.present
                              THEN RestoreDraft(cleared, localStorage.data)
                              ELSE cleared)
            /\ prevVisibility' = visibility
            /\ effectsPending' = (localStorage.present
                                    \/ BecameHidden(form, prevVisibility, visibility) # {})
    /\ mounted' = TRUE
    /\ UNCHANGED visibilityCalls
    /\ UNCHANGED loopOtherVars

\* a later render: the memo recomputes the map, the effect resets what became hidden
LoopRender ==
    /\ mounted
    /\ effectsPending
    /\ Len(visibilityCalls) < MaxRenders
    /\ \E visibility \in {evaluateVisibility(form, formValues)} :
         \E hidden \in {BecameHidden(form, prevVisibility, visibility)} :
            /\ formValues' = ClearOnHide(form, formValues, prevVisibility, visibility)
            /\ prevVisibility' = visibility
            /\ effectsPending' = (hidden # {})
            /\ visibilityCalls' =
                 (IF visibilityCalls = <<>> THEN <<>>
                  ELSE Append(visibilityCalls,
                              [resets |-> hidden,
                               changed |-> ChangedBy(form, formValues, hidden)]))
    /\ UNCHANGED mounted
    /\ UNCHANGED loopOtherVars

\* the user changes one answer of a rendered question
LoopUserInput(id, value) ==
    /\ mounted
    /\ ~effectsPending
    /\ id \in visibleQuestionIdsOf(form, prevVisibility)
    /\ value # formValues[id]
    /\ formValues' = [formValues EXCEPT ![id] = value]
    /\ effectsPending' = TRUE
    /\ visibilityCalls' = <<[resets |-> {}, changed |-> {}]>>
    /\ UNCHANGED <<mounted, prevVisibility>>
    /\ UNCHANGED loopOtherVars

NextResetLoop ==
    \/ LoopMount
    \/ LoopRender
    \/ \E id \in QuestionIds(form) :
          \E value \in InputValues(FindQuestion(form, id), formValues[id]) :
             LoopUserInput(id, value)

SpecResetLoop == InitResetLoop /\ [][NextResetLoop]_vars

RECURSIVE CountOf(_, _)
CountOf(calls, field) ==
    IF calls = <<>> THEN 0
    ELSE Cardinality(calls[1][field]) + CountOf(Tail(calls), field)

\* renders of the loop in which the effect reset something
ResettingRenders == {i \in 1..Len(visibilityCalls) : visibilityCalls[i].resets # {}}

C29_NoDraftAfterSuccessfulSubmission ==
    (pageState \in {"navigating", "gone"}) => ~localStorage.present

\* C28 (SpecResetLoop): when the renderer is at rest, every hidden question holds the
\* default value of its type.
C28_HiddenQuestionsHoldDefaultsAtRest ==
    (pageState = "form" /\ mounted /\ ~effectsPending) =>
        \A id \in HiddenNow : Answer(formValues, id) = getQuestionDefaultValue(FindQuestion(form, id))

=============================================================================
